---- MODULE Spec2Model ----
(***************************************************************************)
(* chatFlow: the chat backend (backend/chat) and the AI service            *)
(* (ai-service/main.py) as one state machine.                              *)
(*                                                                         *)
(* Text is a tuple of one-character strings.  A temperature is kept in     *)
(* tenths (0.7 is 7, 2.0 is 20).  A uuid is a positive integer: a primary  *)
(* key is the number of its row's INSERT, a guest id is drawn from one     *)
(* counter (uuid4 never repeats); 0 is SQL NULL / Python None for an id.   *)
(* The clock advances by one with every INSERT; an UPDATE reads it.        *)
(***************************************************************************)
EXTENDS Integers, Sequences, FiniteSets, TLC

(* ------------------------------ bounds -------------------------------- *)
\* requests made in one behaviour
MaxRequests == 2
\* requests among them that are not the plain chat request or whose POST to
\* the AI service ends in another way than an answer or a timeout
MaxUnusual == 1
\* rows of the session store
MaxSessions == 2
\* length of the histories the context builder is tried on
MaxHistory == 12
\* requests a client makes of the AI service directly
MaxPosts == 1
\* chat turns of the one user of the long conversation
MaxTurns == 7
\* requests a client repeats to the AI service
MaxRepeats == 2
\* requests made in one behaviour of the whole API
MaxApiRequests == 3

(* ------------------------- program constants -------------------------- *)
\* Temperatures are counted in tenths: 0.0, 0.7 and 2.0 are 0, 7 and 20
MaxMessageLen == 2000
TitleLen == 50
MinTemperature == 0
MaxTemperature == 20
DefaultTemperature == 7
MinMaxTokens == 1
MaxMaxTokens == 4000
DefaultMaxTokens == 1000
ContextWindow == 10
ErrorTokens == 20
HTTP_200_OK == 200
HTTP_400_BAD_REQUEST == 400
HTTP_404_NOT_FOUND == 404
HTTP_500_INTERNAL_SERVER_ERROR == 500

NULL == 0
AnonymousUser == "AnonymousUser"
\* Python None / SQL NULL in a place that holds a user
NoUser == "None"
Users == {"alice", "bob"}

(* ------------------------------- text --------------------------------- *)
Rep(c, n) == [i \in 1..n |-> c]

MinOf(S) == CHOOSE x \in S : \A y \in S : x <= y

IsSpace(c) == c \in {" ", "\t", "\n"}

\* Faulty variant of Strip: nothing is trimmed
Strip_Nothing(s) == s

\* str.strip()
Strip(s) ==
    IF \A i \in 1..Len(s) : IsSpace(s[i]) THEN <<>>
    ELSE LET n == Len(s)
             first == CHOOSE i \in 1..n :
                          ~IsSpace(s[i]) /\ \A j \in 1..(i - 1) : IsSpace(s[j])
             back == CHOOSE k \in 1..n :
                         ~IsSpace(s[n + 1 - k]) /\ \A j \in 1..(k - 1) : IsSpace(s[n + 1 - j])
         IN  SubSeq(s, first, n + 1 - back)

\* len(s.split())
WordCount(s) ==
    Cardinality({i \in 1..Len(s) : ~IsSpace(s[i]) /\ (i = 1 \/ IsSpace(s[i - 1]))})

\* s[:n] for n >= 0
Prefix(s, n) == SubSeq(s, 1, IF n < Len(s) THEN n ELSE Len(s))

\* Faulty variant of Suffix: the first n elements instead of the last
Suffix_Oldest(s, n) == IF Len(s) <= n THEN s ELSE SubSeq(s, 1, n)

\* s[-n:] for n > 0
Suffix(s, n) == SubSeq(s, IF Len(s) > n THEN Len(s) - n + 1 ELSE 1, Len(s))

\* s[:-1]
AllButLast(s) == SubSeq(s, 1, Len(s) - 1)

(* --------------------------- literal texts ---------------------------- *)
PREAMBLE_1 ==
    <<"Y", "o", "u", " ", "a", "r", "e", " ", "a", " ", "h", "e",
      "l", "p", "f", "u", "l", " ", "A", "I", " ", "a", "s", "s",
      "i", "s", "t", "a", "n", "t", " ", "i", "n", " ", "a", " ",
      "c", "h", "a", "t", " ", "p", "l", "a", "t", "f", "o", "r",
      "m", ".", " ">>

PREAMBLE_2 ==
    <<"P", "r", "o", "v", "i", "d", "e", " ", "c", "l", "e", "a",
      "r", ",", " ", "h", "e", "l", "p", "f", "u", "l", ",", " ",
      "a", "n", "d", " ", "e", "n", "g", "a", "g", "i", "n", "g",
      " ", "r", "e", "s", "p", "o", "n", "s", "e", "s", ".", " ">>

PREAMBLE_3 ==
    <<"B", "e", " ", "c", "o", "n", "c", "i", "s", "e", " ", "b",
      "u", "t", " ", "i", "n", "f", "o", "r", "m", "a", "t", "i",
      "v", "e", ".", "\n", "\n">>

PREVIOUS_CONVERSATION ==
    <<"P", "r", "e", "v", "i", "o", "u", "s", " ", "c", "o", "n",
      "v", "e", "r", "s", "a", "t", "i", "o", "n", ":", "\n">>

MOCK_0 ==
    <<"I", "'", "m", " ", "a", " ", "m", "o", "c", "k", " ", "A",
      "I", " ", "a", "s", "s", "i", "s", "t", "a", "n", "t", ".",
      " ", "T", "o", " ", "g", "e", "t", " ", "r", "e", "a", "l",
      " ", "r", "e", "s", "p", "o", "n", "s", "e", "s", ",", " ",
      "p", "l", "e", "a", "s", "e", " ", "c", "o", "n", "f", "i",
      "g", "u", "r", "e", " ", "y", "o", "u", "r", " ", "G", "E",
      "M", "I", "N", "I", "_", "A", "P", "I", "_", "K", "E", "Y",
      ".">>

MOCK_1 ==
    <<"T", "h", "i", "s", " ", "i", "s", " ", "a", " ", "d", "e",
      "m", "o", " ", "r", "e", "s", "p", "o", "n", "s", "e", " ",
      "f", "r", "o", "m", " ", "t", "h", "e", " ", "A", "I", " ",
      "s", "e", "r", "v", "i", "c", "e", ".", " ", "T", "h", "e",
      " ", "s", "y", "s", "t", "e", "m", " ", "i", "s", " ", "w",
      "o", "r", "k", "i", "n", "g", " ", "c", "o", "r", "r", "e",
      "c", "t", "l", "y", "!">>

MOCK_2 ==
    <<"H", "e", "l", "l", "o", "!", " ", "I", "'", "m", " ", "r",
      "e", "s", "p", "o", "n", "d", "i", "n", "g", " ", "f", "r",
      "o", "m", " ", "t", "h", "e", " ", "A", "I", " ", "m", "i",
      "c", "r", "o", "s", "e", "r", "v", "i", "c", "e", ".", " ",
      "P", "l", "e", "a", "s", "e", " ", "s", "e", "t", " ", "u",
      "p", " ", "G", "e", "m", "i", "n", "i", " ", "A", "P", "I",
      " ", "f", "o", "r", " ", "r", "e", "a", "l", " ", "A", "I",
      " ", "r", "e", "s", "p", "o", "n", "s", "e", "s", ".">>

MOCK_3_HEAD ==
    <<"Y", "o", "u", " ", "s", "a", "i", "d", ":", " ", "'">>

MOCK_3_TAIL ==
    <<"'", ".", " ", "I", "'", "m", " ", "a", " ", "p", "l", "a",
      "c", "e", "h", "o", "l", "d", "e", "r", " ", "r", "e", "s",
      "p", "o", "n", "s", "e", " ", "u", "n", "t", "i", "l", " ",
      "G", "e", "m", "i", "n", "i", " ", "A", "P", "I", " ", "i",
      "s", " ", "c", "o", "n", "f", "i", "g", "u", "r", "e", "d",
      ".">>

APOLOGY_HEAD ==
    <<"I", " ", "a", "p", "o", "l", "o", "g", "i", "z", "e", ",",
      " ", "b", "u", "t", " ", "I", " ", "e", "n", "c", "o", "u",
      "n", "t", "e", "r", "e", "d", " ", "a", "n", " ", "e", "r",
      "r", "o", "r", ":", " ">>

APOLOGY_TAIL ==
    <<".", " ", "P", "l", "e", "a", "s", "e", " ", "t", "r", "y",
      " ", "a", "g", "a", "i", "n", " ", "l", "a", "t", "e", "r",
      ".">>

AI_ERROR_PREFIX ==
    <<"A", "I", " ", "s", "e", "r", "v", "i", "c", "e", " ", "e",
      "r", "r", "o", "r", ":", " ">>

STATUS_ERROR_HEAD ==
    <<"A", "I", " ", "s", "e", "r", "v", "i", "c", "e", " ", "r",
      "e", "t", "u", "r", "n", "e", "d", " ", "s", "t", "a", "t",
      "u", "s", " ">>

HUMAN ==
    <<"H", "u", "m", "a", "n">>

ASSISTANT ==
    <<"A", "s", "s", "i", "s", "t", "a", "n", "t">>

ELLIPSIS ==
    <<".", ".", ".">>


RECURSIVE Join(_)
\* "".join(parts)
Join(parts) == IF parts = <<>> THEN <<>> ELSE Head(parts) \o Join(Tail(parts))

Digit(d) == <<"0", "1", "2", "3", "4", "5", "6", "7", "8", "9">>[d + 1]

RECURSIVE Str(_)
\* str(n) of a natural number, as an f-string formats it
Str(n) == IF n < 10 THEN <<Digit(n)>> ELSE Str(n \div 10) \o <<Digit(n % 10)>>

(* ---------------------- ai-service/main.py ---------------------------- *)
MODEL_NAME == "gemini-1.5-flash"

\* AIService._prepare_context
PrepareContext(conversation_history, current_message) ==
    LET turn(msg) ==
            (IF msg.role = "user" THEN HUMAN ELSE ASSISTANT)
                \o <<":", " ">> \o msg.content \o <<"\n">>
        recent == Suffix(conversation_history, ContextWindow)
        previous ==
            IF conversation_history # <<>>
            THEN <<PREVIOUS_CONVERSATION>>
                     \o [i \in 1..Len(recent) |-> turn(recent[i])]
                     \o << <<"\n">> >>
            ELSE <<>>
        current == HUMAN \o <<":", " ">> \o current_message \o <<"\n">>
                       \o ASSISTANT \o <<":">>
        context_parts == <<PREAMBLE_1, PREAMBLE_2, PREAMBLE_3>> \o previous \o <<current>>
    IN  Join(context_parts)

\* Faulty variant of GenerateMockResponse: the index is taken modulo 3
GenerateMockResponse_Mod3(message, elapsed) ==
    LET mock_responses ==
            <<MOCK_0, MOCK_1, MOCK_2, MOCK_3_HEAD \o message \o MOCK_3_TAIL>>
        response_content == mock_responses[(Len(message) % 3) + 1]
    IN  [content |-> response_content,
         tokens_used |-> WordCount(response_content) + WordCount(message),
         model |-> "mock-model",
         response_time_ms |-> elapsed]

\* AIService._generate_mock_response
GenerateMockResponse(message, elapsed) ==
    LET mock_responses ==
            <<MOCK_0, MOCK_1, MOCK_2, MOCK_3_HEAD \o message \o MOCK_3_TAIL>>
        response_index == Len(message) % Len(mock_responses)
        response_content == mock_responses[response_index + 1]
    IN  [content |-> response_content,
         tokens_used |-> WordCount(response_content) + WordCount(message),
         model |-> "mock-model",
         response_time_ms |-> elapsed]

\* Faulty variant of GenerateErrorResponse: the error text is left out and no
\* tokens are counted
GenerateErrorResponse_Bare(error, elapsed) ==
    [content |-> APOLOGY_HEAD \o APOLOGY_TAIL,
     tokens_used |-> 0,
     model |-> MODEL_NAME,
     response_time_ms |-> elapsed]

\* AIService._generate_error_response
GenerateErrorResponse(error, elapsed) ==
    [content |-> APOLOGY_HEAD \o error \o APOLOGY_TAIL,
     tokens_used |-> ErrorTokens,
     model |-> IF MODEL_NAME # "" THEN MODEL_NAME ELSE "error-model",
     response_time_ms |-> elapsed]

\* What self.model.generate_content does with a prompt: it returns a text or
\* raises; the text is opaque.
GeminiOutcomes ==
    {[raises |-> FALSE, text |-> <<"o", "k">>],
     [raises |-> TRUE, text |-> <<"q", "u", "o", "t", "a">>]}

NoContext == <<>>

\* AIService.generate_response: the result and the prompt it rendered
GenerateResponse(model, request, outcome, elapsed) ==
    IF ~model
    THEN [result |-> GenerateMockResponse(request.message, elapsed),
          context |-> NoContext, path |-> "mock", raised |-> <<>>]
    ELSE LET context == PrepareContext(request.conversation_history, request.message)
         IN  IF outcome.raises
             THEN [result |-> GenerateErrorResponse(outcome.text, elapsed),
                   context |-> context, path |-> "error", raised |-> outcome.text]
             ELSE [result |-> [content |-> outcome.text,
                               tokens_used |-> WordCount(outcome.text)
                                                 + WordCount(request.message),
                               model |-> MODEL_NAME,
                               response_time_ms |-> elapsed],
                   context |-> context, path |-> "model", raised |-> <<>>]

\* ChatRequest (pydantic): the fields' constraints
ChatRequestOk(request) ==
    /\ Len(request.message) >= 1
    /\ Len(request.message) <= MaxMessageLen
    /\ request.temperature >= MinTemperature
    /\ request.temperature <= MaxTemperature
    /\ request.max_tokens >= MinMaxTokens
    /\ request.max_tokens <= MaxMaxTokens

(* ---------------------- backend/chat/serializers.py ------------------- *)
\* ChatRequestSerializer: is_valid(), errors and validated_data.  `given` are
\* the fields present in the body, `malformed` those whose value has the
\* wrong form (a conversation_id that is no uuid).
ChatRequestSerializer(data) ==
    LET trimmed == Strip(data.message)
        message_error ==
            \/ "message" \notin data.given
            \/ trimmed = <<>>
            \/ Len(trimmed) > MaxMessageLen
            \/ Strip(trimmed) = <<>>
        temperature_error ==
            /\ "temperature" \in data.given
            /\ \/ data.temperature < MinTemperature
               \/ data.temperature > MaxTemperature
        max_tokens_error ==
            /\ "max_tokens" \in data.given
            /\ \/ data.max_tokens < MinMaxTokens
               \/ data.max_tokens > MaxMaxTokens
        conversation_id_error ==
            /\ "conversation_id" \in data.given
            /\ "conversation_id" \in data.malformed
    IN  [errors |->
             (IF message_error THEN {"message"} ELSE {})
                 \cup (IF temperature_error THEN {"temperature"} ELSE {})
                 \cup (IF max_tokens_error THEN {"max_tokens"} ELSE {})
                 \cup (IF conversation_id_error THEN {"conversation_id"} ELSE {}),
         validated_data |->
             [message |-> Strip(trimmed),
              conversation_id |->
                  IF "conversation_id" \in data.given THEN data.conversation_id ELSE NULL,
              temperature |->
                  IF "temperature" \in data.given THEN data.temperature
                  ELSE DefaultTemperature,
              max_tokens |->
                  IF "max_tokens" \in data.given THEN data.max_tokens
                  ELSE DefaultMaxTokens]]


(* ------------------------------ state --------------------------------- *)
VARIABLES
    now,             \* the clock (ms); every INSERT takes one tick
    uuid,            \* uuid4() draws so far: the next draw is uuid + 1
    gemini,          \* AIService.model is set (GEMINI_API_KEY is configured)
    django_session,  \* the session store, indexed by session key
    cookies,         \* session keys that a response handed to a client
    conversations,   \* table conversations, in insertion order
    messages,        \* table messages, in insertion order
    api_usage,       \* table api_usage, in insertion order
    worker,          \* the locals of each running ConversationViewSet.chat
    log,             \* history: one record per chat invocation
    ai_requests,     \* history: the POST /chat requests the backend sent
    ai_log,          \* history: the requests the AI service answered
    budget           \* requests still allowed, and unusual ones among them

vars == <<now, uuid, gemini, django_session, cookies, conversations, messages,
          api_usage, worker, log, ai_requests, ai_log, budget>>

database == <<conversations, messages, api_usage>>

WorkerOrder == <<"w1", "w2">>

NoResponse == [content |-> <<>>, tokens_used |-> 0, model |-> "", response_time_ms |-> 0]

Idle ==
    [pc |-> "idle", inv |-> 0, start_time |-> 0, session_key |-> NULL,
     message_content |-> <<>>, temperature |-> 0, max_tokens |-> 0,
     user |-> NoUser, guest_session_id |-> NULL, conversation |-> NULL,
     user_message |-> NULL, assistant_message |-> NULL, stamp |-> 0,
     ai_response |-> NoResponse]

Range(s) == {s[i] : i \in DOMAIN s}

\* The primary key a new row gets.  uuid4 never repeats, also not the key of
\* a row that is deleted since: the key is the number of the row's INSERT.
NextId == now

(* ---------------------- backend/chat/models.py ------------------------ *)
\* Conversation(...): user and guest_session_id are nullable, title has a
\* default, created_at is auto_now_add and updated_at auto_now
Conversation(id, user, guest_session_id, title, t) ==
    [id |-> id, user |-> user, guest_session_id |-> guest_session_id,
     title |-> title, created_at |-> t, updated_at |-> t]

\* Faulty variant of Message: every row is stored with the role user
Message_AllUser(id, conversation, content, role, metadata, t) ==
    [id |-> id, conversation |-> conversation, content |-> content,
     role |-> "user", metadata |-> metadata, created_at |-> t]

\* Message(...): metadata defaults to {}
Message(id, conversation, content, role, metadata, t) ==
    [id |-> id, conversation |-> conversation, content |-> content,
     role |-> role, metadata |-> metadata, created_at |-> t]

\* Faulty variant of APIUsage: every record is charged the tokens of an
\* error response
APIUsage_Charged(id, user, guest_session_id, tokens_used, response_time_ms, status_code, t) ==
    [id |-> id, user |-> user, guest_session_id |-> guest_session_id,
     endpoint |-> "chat", tokens_used |-> tokens_used + ErrorTokens,
     response_time_ms |-> response_time_ms, status_code |-> status_code,
     created_at |-> t]

\* APIUsage(...)
APIUsage(id, user, guest_session_id, tokens_used, response_time_ms, status_code, t) ==
    [id |-> id, user |-> user, guest_session_id |-> guest_session_id,
     endpoint |-> "chat", tokens_used |-> tokens_used,
     response_time_ms |-> response_time_ms, status_code |-> status_code,
     created_at |-> t]

\* Faulty variant of RecordUsage: the record is lost
RecordUsage_Lost(table, row) == table

\* APIUsage.objects.create(...): the INSERT
RecordUsage(table, row) == Append(table, row)

RECURSIVE OrderByCreatedAt_Descending(_)
\* Faulty variant of OrderByCreatedAt: the newest row first
OrderByCreatedAt_Descending(rows) ==
    IF rows = <<>> THEN <<>>
    ELSE LET first == CHOOSE i \in DOMAIN rows :
                          \A j \in DOMAIN rows :
                              \/ rows[i].created_at > rows[j].created_at
                              \/ rows[i].created_at = rows[j].created_at /\ i <= j
             rest == [k \in 1..(Len(rows) - 1) |-> IF k < first THEN rows[k] ELSE rows[k + 1]]
         IN  <<rows[first]>> \o OrderByCreatedAt_Descending(rest)

RECURSIVE OrderByCreatedAt(_)
\* QuerySet.order_by('created_at') (Message.Meta.ordering)
OrderByCreatedAt(rows) ==
    IF rows = <<>> THEN <<>>
    ELSE LET first == CHOOSE i \in DOMAIN rows :
                          \A j \in DOMAIN rows :
                              \/ rows[i].created_at < rows[j].created_at
                              \/ rows[i].created_at = rows[j].created_at /\ i <= j
             rest == [k \in 1..(Len(rows) - 1) |-> IF k < first THEN rows[k] ELSE rows[k + 1]]
         IN  <<rows[first]>> \o OrderByCreatedAt(rest)

\* conversation.messages: the Messages whose foreign key is the conversation
MessagesOf(conversation) ==
    OrderByCreatedAt(SelectSeq(messages, LAMBDA m : m.conversation = conversation))

\* Faulty variant of TouchConversation: the refresh writes the time the
\* conversation was created
TouchConversation_Stale(table, conversation, t) ==
    [i \in DOMAIN table |->
        IF table[i].id = conversation
        THEN [table[i] EXCEPT !.updated_at = table[i].created_at]
        ELSE table[i]]

\* Message.save, models.py 98: the UPDATE that writes the conversation's
\* updated_at
TouchConversation(table, conversation, t) ==
    [i \in DOMAIN table |->
        IF table[i].id = conversation THEN [table[i] EXCEPT !.updated_at = t]
        ELSE table[i]]

(* ----------------------- backend/chat/views.py ------------------------ *)
\* request.user and request.user.is_authenticated
IsAuthenticated(caller) == caller.user # AnonymousUser

\* Faulty variant of get_or_create_guest_session: a new id at every call
GetOrCreateGuestSession_Redraw(store, session_key, drawn) ==
    LET created == IF session_key = NULL
                   THEN Append(store, [guest_session_id |-> NULL])
                   ELSE store
        key == IF session_key = NULL THEN Len(created) ELSE session_key
    IN  [store |-> [created EXCEPT ![key].guest_session_id = drawn + 1],
         session_key |-> key, session_id |-> drawn + 1, uuid |-> drawn + 1]

\* ConversationViewSet.get_or_create_guest_session: the store, the session
\* key and the guest id afterwards, and the uuid4 draws used
GetOrCreateGuestSession(store, session_key, drawn) ==
    LET created == IF session_key = NULL
                   THEN Append(store, [guest_session_id |-> NULL])
                   ELSE store
        key == IF session_key = NULL THEN Len(created) ELSE session_key
        session_id == created[key].guest_session_id
    IN  IF session_id = NULL
        THEN [store |-> [created EXCEPT ![key].guest_session_id = drawn + 1],
              session_key |-> key, session_id |-> drawn + 1, uuid |-> drawn + 1]
        ELSE [store |-> created, session_key |-> key,
              session_id |-> session_id, uuid |-> drawn]

\* Faulty variant of the identification: a guest session id for every
\* caller, the authenticated ones too
Identify_Both(caller) ==
    LET g == GetOrCreateGuestSession(django_session, caller.session_key, uuid)
    IN  [store |-> g.store, session_key |-> g.session_key, uuid |-> g.uuid,
         user |-> IF caller.user # AnonymousUser THEN caller.user ELSE NoUser,
         guest_session_id |-> g.session_id]

\* views.py 93-100, 61-67, 38-44: the owner a request acts for
Identify(caller) ==
    IF IsAuthenticated(caller)
    THEN [store |-> django_session, session_key |-> caller.session_key,
          uuid |-> uuid, user |-> caller.user, guest_session_id |-> NULL]
    ELSE LET g == GetOrCreateGuestSession(django_session, caller.session_key, uuid)
         IN  [store |-> g.store, session_key |-> g.session_key, uuid |-> g.uuid,
              user |-> NoUser, guest_session_id |-> g.session_id]

\* Faulty variant of the owner filter: every row passes
OwnedBy_Anyone(row, user, guest_session_id) == TRUE

\* Conversation.objects.filter(user=...) / filter(guest_session_id=...)
OwnedBy(row, user, guest_session_id) ==
    IF user # NoUser THEN row.user = user
    ELSE row.guest_session_id = guest_session_id

\* The requests a client can make: with a session cookie it was handed or with
\* none, anonymous or authenticated
Callers ==
    {[session_key |-> k, user |-> AnonymousUser] : k \in cookies \cup {NULL}}
        \cup {[session_key |-> NULL, user |-> u] : u \in Users}

\* A request without a session makes the store grow: the store is capped
CanServe(caller) ==
    \/ IsAuthenticated(caller)
    \/ caller.session_key # NULL
    \/ Len(django_session) < MaxSessions


(* ---------------------------- chat inputs ----------------------------- *)
\* A well-formed uuid that uuid4 never returned to this server
StrangerUuid == NULL - 1

Body(given, message, temperature, max_tokens) ==
    [given |-> given, malformed |-> {}, message |-> message,
     conversation_id |-> NULL, temperature |-> temperature, max_tokens |-> max_tokens]

\* The request bodies tried, by name; the conversation_id is added per call
ChatBodies ==
    [plain |-> Body({"message"}, <<" ", "h", "i", " ">>, 0, 0),
     long_title |-> Body({"message", "temperature", "max_tokens"},
                         Rep("x", TitleLen + 10) \o <<" ">>, MaxTemperature, MaxMaxTokens),
     edge |-> Body({"message", "temperature", "max_tokens"},
                   <<" ">> \o Rep("x", MaxMessageLen), MinTemperature, MinMaxTokens),
     blank |-> Body({"message"}, <<" ", "\t", " ">>, 0, 0),
     too_long |-> Body({"message"}, <<" ">> \o Rep("x", MaxMessageLen + 1), 0, 0),
     cold |-> Body({"message", "temperature"}, <<"h", "i">>, MinTemperature - 1, 0),
     hot |-> Body({"message", "temperature"}, <<"h", "i">>, MaxTemperature + 1, 0),
     no_tokens |-> Body({"message", "max_tokens"}, <<"h", "i">>, 0, MinMaxTokens - 1),
     many_tokens |-> Body({"message", "max_tokens"}, <<"h", "i">>, 0, MaxMaxTokens + 1)]

\* The conversation ids a client may send: none, a stranger, any existing one
ConversationIds == {NULL, StrangerUuid} \cup {c.id : c \in Range(conversations)}

\* Only the plain body is tried with a conversation id
ChatCalls ==
    {call \in (DOMAIN ChatBodies) \X ConversationIds :
        call[2] = NULL \/ call[1] = "plain"}

\* The ways the POST to the AI service fails, with the exception's text
Failures ==
    [timeout |-> <<"t", "i", "m", "e", "d", " ", "o", "u", "t">>,
     refused |-> <<"r", "e", "f", "u", "s", "e", "d">>,
     status |-> STATUS_ERROR_HEAD \o Str(HTTP_500_INTERNAL_SERVER_ERROR)
                    \o <<":", " ">> \o <<"o", "o", "p", "s">>,
     unparsable |-> <<"n", "o", "t", " ", "J", "S", "O", "N">>]

NoData == <<>>

\* The record of a chat invocation: what was asked, by whom, and what the
\* invocation created and answered
LogEntry(caller, body, conversation_id) ==
    [caller |-> caller, body |-> body, conversation_id |-> conversation_id,
     user |-> NoUser, guest_session_id |-> NULL, status |-> 0,
     errors |-> {}, error |-> <<>>, conversation |-> NULL,
     created_conversation |-> FALSE, user_message |-> NULL,
     assistant_message |-> NULL, usage |-> NULL, ai |-> "none",
     response_data |-> NoData]

\* The plain request is the body "plain" with no id or an existing one;
\* every other request is an unusual one
Unusual(name, cid) == name # "plain" \/ cid = StrangerUuid

\* The plain outcomes of the POST are an answer and a timeout
Spend(unusual) ==
    /\ unusual => budget.unusual > 0
    /\ budget' = [budget EXCEPT !.unusual = IF unusual THEN @ - 1 ELSE @]

FirstIdle ==
    WorkerOrder[MinOf({i \in DOMAIN WorkerOrder : worker[WorkerOrder[i]].pc = "idle"})]


(* ------------------- ConversationViewSet.chat ------------------------- *)
SetWorker(w, locals) == worker' = [worker EXCEPT ![w] = locals]

SetLog(inv, entry) == log' = [log EXCEPT ![inv] = entry]

\* The session cookie goes out with the response
HandOut(session_key) ==
    cookies' = IF session_key = NULL THEN cookies ELSE cookies \cup {session_key}

\* Faulty variant of the title: cut at 50 characters, no "..."
TitleOf_Cut(message_content) ==
    IF Len(message_content) > TitleLen THEN Prefix(message_content, TitleLen)
    ELSE message_content

\* views.py 108-118: the title of the conversation a chat opens
TitleOf(message_content) ==
    IF Len(message_content) > TitleLen
    THEN Prefix(message_content, TitleLen) \o ELLIPSIS
    ELSE message_content

\* Faulty variant of Target: an id that is not found opens a new conversation
Target_Fallback(conversation_id, found) ==
    IF conversation_id = NULL \/ found = {} THEN "create" ELSE "resume"

\* views.py 103-118: what the chat does about the conversation.  With an id
\* it is get_object_or_404 over the owner's conversations, without one a new
\* conversation.
Target(conversation_id, found) ==
    IF conversation_id = NULL THEN "create"
    ELSE IF found = {} THEN "404"
    ELSE "resume"

\* views.py 78-118: validation, identification and the conversation.  A body
\* that fails validation is answered 400 before anything else is touched; an
\* id that is not a conversation of the owner is answered 404.
ChatBegin(w, caller, name, cid) ==
    /\ worker[w].pc = "idle"
    /\ w = FirstIdle
    /\ budget.requests > 0
    /\ Unusual(name, cid) => budget.unusual > 0
    /\ LET body == ChatBodies[name]
           data == IF cid = NULL THEN body
                   ELSE [body EXCEPT !.conversation_id = cid,
                                     !.given = @ \cup {"conversation_id"}]
           serializer == ChatRequestSerializer(data)
           validated_data == serializer.validated_data
           inv == Len(log) + 1
           entry == LogEntry(caller, name, cid)
           who == Identify(caller)
           found == {c \in Range(conversations) :
                        /\ c.id = validated_data.conversation_id
                        /\ OwnedBy(c, who.user, who.guest_session_id)}
           known == [entry EXCEPT !.user = who.user,
                                  !.guest_session_id = who.guest_session_id]
           locals == [Idle EXCEPT !.pc = "user_message", !.inv = inv,
                                  !.start_time = now,
                                  !.session_key = who.session_key,
                                  !.message_content = validated_data.message,
                                  !.temperature = validated_data.temperature,
                                  !.max_tokens = validated_data.max_tokens,
                                  !.user = who.user,
                                  !.guest_session_id = who.guest_session_id]
       IN  /\ budget' = [requests |-> budget.requests - 1,
                          unusual |-> IF Unusual(name, cid) THEN budget.unusual - 1
                                      ELSE budget.unusual]
           /\ UNCHANGED <<gemini, messages, api_usage, ai_requests, ai_log>>
           /\ IF serializer.errors # {}
              THEN /\ log' = Append(log, [entry EXCEPT !.status = HTTP_400_BAD_REQUEST,
                                                       !.errors = serializer.errors])
                   /\ UNCHANGED <<now, uuid, django_session, cookies, conversations, worker>>
              ELSE IF ~CanServe(caller)
              THEN FALSE
              ELSE IF Target(validated_data.conversation_id, found) = "404"
              THEN /\ log' = Append(log, [known EXCEPT !.status = HTTP_404_NOT_FOUND])
                   /\ django_session' = who.store
                   /\ uuid' = who.uuid
                   /\ HandOut(who.session_key)
                   /\ UNCHANGED <<now, conversations, worker>>
              ELSE IF Target(validated_data.conversation_id, found) = "resume"
              THEN /\ log' = Append(log, [known EXCEPT
                                              !.conversation = validated_data.conversation_id])
                   /\ SetWorker(w, [locals EXCEPT
                                       !.conversation = validated_data.conversation_id])
                   /\ django_session' = who.store
                   /\ uuid' = who.uuid
                   /\ UNCHANGED <<now, cookies, conversations>>
              ELSE /\ conversations' =
                          Append(conversations,
                                 Conversation(NextId, who.user,
                                              who.guest_session_id,
                                              TitleOf(validated_data.message), now))
                   /\ log' = Append(log, [known EXCEPT !.conversation = NextId,
                                                       !.created_conversation = TRUE])
                   /\ SetWorker(w, [locals EXCEPT !.conversation = NextId])
                   /\ django_session' = who.store
                   /\ uuid' = who.uuid
                   /\ now' = now + 1
                   /\ UNCHANGED cookies

\* views.py 120-125 with Message.save's INSERT (models.py 94-96)
ChatUserMessage(w) ==
    /\ worker[w].pc = "user_message"
    /\ messages' = Append(messages,
                          Message(NextId, worker[w].conversation,
                                  worker[w].message_content, "user", <<>>, now))
    /\ now' = now + 1
    /\ SetWorker(w, [worker[w] EXCEPT !.pc = "user_stamp",
                                      !.user_message = NextId])
    /\ SetLog(worker[w].inv, [log[worker[w].inv] EXCEPT !.user_message = NextId])
    /\ UNCHANGED <<uuid, gemini, django_session, cookies, conversations, api_usage,
                   ai_requests, ai_log, budget>>

\* Message.save, models.py 97: timezone.now() is read for the conversation
\* that the user message went into
ChatUserStamp(w) ==
    /\ worker[w].pc = "user_stamp"
    /\ SetWorker(w, [worker[w] EXCEPT !.pc = "user_touch", !.stamp = now])
    /\ UNCHANGED <<now, uuid, gemini, django_session, cookies, database, log,
                   ai_requests, ai_log, budget>>

\* Message.save's UPDATE of the conversation (models.py 98), user message:
\* the time read before is written, whatever was written since
ChatUserTouch(w) ==
    /\ worker[w].pc = "user_touch"
    /\ conversations' = TouchConversation(conversations, worker[w].conversation,
                                          worker[w].stamp)
    /\ SetWorker(w, [worker[w] EXCEPT !.pc = "call_ai", !.stamp = 0])
    /\ UNCHANGED <<now, uuid, gemini, django_session, cookies, messages, api_usage, log,
                   ai_requests, ai_log, budget>>

\* Faulty variant of the payload: the history is cut to its last ten messages
Payload_LastTen(message, conversation, temperature, max_tokens) ==
    LET rows == MessagesOf(conversation)
        values == [i \in DOMAIN rows |-> [content |-> rows[i].content, role |-> rows[i].role]]
    IN  [message |-> message,
         conversation_history |-> Suffix(AllButLast(values), ContextWindow),
         temperature |-> temperature, max_tokens |-> max_tokens]

\* views.py 202-211: the payload of the POST
Payload(message, conversation, temperature, max_tokens) ==
    LET rows == MessagesOf(conversation)
        values == [i \in DOMAIN rows |-> [content |-> rows[i].content, role |-> rows[i].role]]
    IN  [message |-> message, conversation_history |-> AllButLast(values),
         temperature |-> temperature, max_tokens |-> max_tokens]

\* Faulty variant of ChatCallAI: the request is sent a second time
ChatCallAI_Twice(w) ==
    /\ worker[w].pc = "call_ai"
    /\ LET request == [by |-> worker[w].inv,
                       payload |-> Payload(worker[w].message_content,
                                           worker[w].conversation,
                                           worker[w].temperature, worker[w].max_tokens)]
       IN  ai_requests' = ai_requests \o <<request, request>>
    /\ SetWorker(w, [worker[w] EXCEPT !.pc = "ai"])
    /\ UNCHANGED <<now, uuid, gemini, django_session, cookies, database, log, ai_log, budget>>

\* views.py 199-219: the history is read and the request sent
ChatCallAI(w) ==
    /\ worker[w].pc = "call_ai"
    /\ ai_requests' =
           Append(ai_requests,
                  [by |-> worker[w].inv,
                   payload |-> Payload(worker[w].message_content, worker[w].conversation,
                                       worker[w].temperature, worker[w].max_tokens)])
    /\ SetWorker(w, [worker[w] EXCEPT !.pc = "ai"])
    /\ UNCHANGED <<now, uuid, gemini, django_session, cookies, database, log, ai_log, budget>>


\* main.py 249-272: POST /chat of the AI service.  A body that breaks the
\* ChatRequest constraints is answered 422 by the framework.
ChatEndpoint(model, request, outcome, elapsed) ==
    IF ~ChatRequestOk(request)
    THEN [status_code |-> 422, body |-> NoResponse, context |-> NoContext,
          path |-> "invalid", raised |-> <<>>]
    ELSE LET response == GenerateResponse(model, request, outcome, elapsed)
         IN  [status_code |-> HTTP_200_OK, body |-> response.result,
              context |-> response.context, path |-> response.path,
              raised |-> response.raised]

\* The request this invocation has in flight
Sent(inv) ==
    (CHOOSE r \in Range(ai_requests) : r.by = inv).payload

\* Faulty variant of ChatFailed: the except branch records the failure and
\* returns no response
ChatFailed_Unanswered(w, kind, text) ==
    /\ api_usage' = RecordUsage(api_usage,
                           APIUsage(NextId, worker[w].user,
                                    worker[w].guest_session_id, 0,
                                    now - worker[w].start_time,
                                    HTTP_500_INTERNAL_SERVER_ERROR, now))
    /\ now' = now + 1
    /\ SetLog(worker[w].inv,
              [log[worker[w].inv] EXCEPT !.status = 0,
                                         !.error = AI_ERROR_PREFIX \o text,
                                         !.usage = NextId,
                                         !.ai = kind])
    /\ HandOut(worker[w].session_key)
    /\ SetWorker(w, Idle)

\* views.py 178-197: the except branch.  One APIUsage row with status 500
\* and no tokens, and the 500 response with the exception's text.
ChatFailed(w, kind, text) ==
    /\ api_usage' = RecordUsage(api_usage,
                           APIUsage(NextId, worker[w].user,
                                    worker[w].guest_session_id, 0,
                                    now - worker[w].start_time,
                                    HTTP_500_INTERNAL_SERVER_ERROR, now))
    /\ now' = now + 1
    /\ SetLog(worker[w].inv,
              [log[worker[w].inv] EXCEPT !.status = HTTP_500_INTERNAL_SERVER_ERROR,
                                         !.error = AI_ERROR_PREFIX \o text,
                                         !.usage = NextId,
                                         !.ai = kind])
    /\ HandOut(worker[w].session_key)
    /\ SetWorker(w, Idle)

\* Faulty variant of ChatAIFail: the failed turn is rolled back, its user
\* Message deleted
ChatAIFail_Rollback(w, kind) ==
    /\ worker[w].pc = "ai"
    /\ ChatFailed(w, kind, Failures[kind])
    /\ Spend(kind # "timeout")
    /\ messages' = SelectSeq(messages, LAMBDA m : m.id # worker[w].user_message)
    /\ UNCHANGED <<uuid, gemini, django_session, conversations, ai_requests, ai_log>>

\* views.py 214-224, 178: requests.post raises (timeout, no connection), the
\* status is not 200, or the body is no JSON
ChatAIFail(w, kind) ==
    /\ worker[w].pc = "ai"
    /\ ChatFailed(w, kind, Failures[kind])
    /\ Spend(kind # "timeout")
    /\ UNCHANGED <<uuid, gemini, django_session, conversations, messages, ai_requests,
                   ai_log>>

\* views.py 221-222, 136-147: the AI service answers, the body is parsed and
\* the assistant Message inserted
ChatAIReply(w, outcome) ==
    /\ worker[w].pc = "ai"
    /\ LET request == Sent(worker[w].inv)
           served == ChatEndpoint(gemini, request, outcome, 0)
           ai_response == served.body
       IN  /\ ai_log' = Append(ai_log, [request |-> request, path |-> served.path,
                                        context |-> served.context,
                                        raised |-> served.raised,
                                        status_code |-> served.status_code,
                                        response |-> served.body])
           /\ IF served.status_code # HTTP_200_OK
              THEN /\ ChatFailed(w, "status",
                                 STATUS_ERROR_HEAD \o Str(served.status_code)
                                     \o <<":", " ">> \o <<"d", "e", "t", "a", "i", "l">>)
                   /\ UNCHANGED messages
              ELSE /\ messages' =
                          Append(messages,
                                 Message(NextId, worker[w].conversation,
                                         ai_response.content, "assistant",
                                         [tokens_used |-> ai_response.tokens_used,
                                          model |-> ai_response.model,
                                          temperature |-> worker[w].temperature,
                                          max_tokens |-> worker[w].max_tokens],
                                         now))
                   /\ now' = now + 1
                   /\ SetWorker(w, [worker[w] EXCEPT !.pc = "assistant_stamp",
                                                     !.assistant_message = NextId,
                                                     !.ai_response = ai_response])
                   /\ SetLog(worker[w].inv,
                             [log[worker[w].inv] EXCEPT !.assistant_message = NextId,
                                                        !.ai = "ok"])
                   /\ UNCHANGED <<cookies, api_usage>>
    /\ Spend(gemini /\ outcome.raises)
    /\ UNCHANGED <<uuid, gemini, django_session, conversations, ai_requests>>

\* Message.save, models.py 97: timezone.now() is read for the conversation
\* that the assistant message went into
ChatAssistantStamp(w) ==
    /\ worker[w].pc = "assistant_stamp"
    /\ SetWorker(w, [worker[w] EXCEPT !.pc = "assistant_touch", !.stamp = now])
    /\ UNCHANGED <<now, uuid, gemini, django_session, cookies, database, log,
                   ai_requests, ai_log, budget>>

\* Message.save's UPDATE of the conversation (models.py 98), assistant message
ChatAssistantTouch(w) ==
    /\ worker[w].pc = "assistant_touch"
    /\ conversations' = TouchConversation(conversations, worker[w].conversation,
                                          worker[w].stamp)
    /\ SetWorker(w, [worker[w] EXCEPT !.pc = "usage", !.stamp = 0])
    /\ UNCHANGED <<now, uuid, gemini, django_session, cookies, messages, api_usage, log,
                   ai_requests, ai_log, budget>>

\* MessageSerializer(instance).data
MessageData(id) == CHOOSE m \in Range(messages) : m.id = id

\* Faulty variant of ChatUsage: the response time of the response is measured
\* again, after the APIUsage row is inserted
ChatUsage_Retimed(w) ==
    /\ worker[w].pc = "usage"
    /\ LET response_time_ms == now - worker[w].start_time
           response_data ==
               [conversation_id |-> worker[w].conversation,
                user_message |-> MessageData(worker[w].user_message),
                assistant_message |-> MessageData(worker[w].assistant_message),
                tokens_used |-> worker[w].ai_response.tokens_used,
                response_time_ms |-> response_time_ms + 1,
                is_guest |-> worker[w].user = NoUser]
       IN  /\ api_usage' = RecordUsage(api_usage,
                                  APIUsage(NextId, worker[w].user,
                                           worker[w].guest_session_id,
                                           worker[w].ai_response.tokens_used,
                                           response_time_ms, HTTP_200_OK, now))
           /\ SetLog(worker[w].inv,
                     [log[worker[w].inv] EXCEPT !.status = HTTP_200_OK,
                                                !.usage = NextId,
                                                !.response_data = response_data])
    /\ now' = now + 1
    /\ HandOut(worker[w].session_key)
    /\ SetWorker(w, Idle)
    /\ UNCHANGED <<uuid, gemini, django_session, conversations, messages, ai_requests,
                   ai_log, budget>>

\* views.py 149-176: the APIUsage row with status 200 and the response
ChatUsage(w) ==
    /\ worker[w].pc = "usage"
    /\ LET response_time_ms == now - worker[w].start_time
           response_data ==
               [conversation_id |-> worker[w].conversation,
                user_message |-> MessageData(worker[w].user_message),
                assistant_message |-> MessageData(worker[w].assistant_message),
                tokens_used |-> worker[w].ai_response.tokens_used,
                response_time_ms |-> response_time_ms,
                is_guest |-> worker[w].user = NoUser]
       IN  /\ api_usage' = RecordUsage(api_usage,
                                  APIUsage(NextId, worker[w].user,
                                           worker[w].guest_session_id,
                                           worker[w].ai_response.tokens_used,
                                           response_time_ms, HTTP_200_OK, now))
           /\ SetLog(worker[w].inv,
                     [log[worker[w].inv] EXCEPT !.status = HTTP_200_OK,
                                                !.usage = NextId,
                                                !.response_data = response_data])
    /\ now' = now + 1
    /\ HandOut(worker[w].session_key)
    /\ SetWorker(w, Idle)
    /\ UNCHANGED <<uuid, gemini, django_session, conversations, messages, ai_requests,
                   ai_log, budget>>

(* ------------------- the other conversation endpoints ----------------- *)
\* ConversationViewSet.get_queryset: the rows a request may see, and what
\* the lookup leaves in the session store
GetQueryset(caller) ==
    LET who == Identify(caller)
    IN  [rows |-> SelectSeq(conversations,
                            LAMBDA c : OwnedBy(c, who.user, who.guest_session_id)),
         who |-> who]

\* get_object_or_404 over get_queryset (GenericAPIView.get_object)
GetObject(caller, pk) ==
    {c \in Range(GetQueryset(caller).rows) : c.id = pk}

\* The response of GET /conversations/{pk}/
RetrieveResponse(caller, pk) ==
    IF GetObject(caller, pk) = {}
    THEN [status |-> HTTP_404_NOT_FOUND, data |-> NoData]
    ELSE [status |-> HTTP_200_OK, data |-> CHOOSE c \in GetObject(caller, pk) : TRUE]

\* The response of GET /conversations/{pk}/messages/ (views.py 69-75)
MessagesResponse(caller, pk) ==
    IF GetObject(caller, pk) = {}
    THEN [status |-> HTTP_404_NOT_FOUND, data |-> NoData]
    ELSE [status |-> HTTP_200_OK, data |-> MessagesOf(pk)]

\* MessageViewSet.get_queryset (views.py 233-247): the rows GET /messages/
\* shows; it creates no session
MessageQueryset(caller) ==
    LET of_user(m) == \E c \in Range(conversations) :
                          c.id = m.conversation /\ c.user = caller.user
        of_guest(m) == \E c \in Range(conversations) :
                           /\ c.id = m.conversation
                           /\ c.guest_session_id =
                                  django_session[caller.session_key].guest_session_id
    IN  IF IsAuthenticated(caller) THEN SelectSeq(messages, of_user)
        ELSE IF caller.session_key = NULL THEN <<>>
        ELSE IF django_session[caller.session_key].guest_session_id = NULL THEN <<>>
        ELSE SelectSeq(messages, of_guest)

\* What get_queryset does to the state: a guest without a session gets one
Queried(caller) ==
    /\ budget.requests > 0
    /\ CanServe(caller)
    /\ budget' = [budget EXCEPT !.requests = @ - 1]
    /\ LET who == GetQueryset(caller).who
       IN  /\ django_session' = who.store
           /\ uuid' = who.uuid
           /\ HandOut(who.session_key)
    /\ UNCHANGED <<now, gemini, database, worker, log, ai_requests, ai_log>>

\* GET /conversations/
ConversationList(caller) == Queried(caller)

\* GET /conversations/{pk}/, whatever the pk
ConversationRetrieve(caller) == Queried(caller)

\* GET /conversations/{pk}/messages/ (views.py 69-75), whatever the pk
ConversationMessages(caller) == Queried(caller)

\* POST /conversations/ (perform_create, views.py 59-67); a request without a
\* title gets the model's default
ConversationCreate(caller, title) ==
    /\ budget.requests > 0
    /\ CanServe(caller)
    /\ LET who == Identify(caller)
       IN  /\ conversations' =
                  Append(conversations,
                         Conversation(NextId, who.user,
                                      who.guest_session_id, title, now))
           /\ django_session' = who.store
           /\ uuid' = who.uuid
           /\ HandOut(who.session_key)
    /\ now' = now + 1
    /\ budget' = [budget EXCEPT !.requests = @ - 1]
    /\ UNCHANGED <<gemini, messages, api_usage, worker, log, ai_requests, ai_log>>

Titles == {<<"t", "o", "p", "i", "c">>}

(* ---------- update and delete of a conversation, usage, messages ------- *)
\* The bodies of PUT and PATCH /conversations/{pk}/ that are tried: a new
\* title alone, a new title with another owner, and nothing
UpdateBodies ==
    {[given |-> {"title"}, title |-> <<"n", "e", "w">>, user |-> NoUser,
      guest_session_id |-> NULL],
     [given |-> {"title", "user", "guest_session_id"}, title |-> <<"m", "i", "n", "e">>,
      user |-> "bob", guest_session_id |-> StrangerUuid],
     [given |-> {}, title |-> <<>>, user |-> NoUser, guest_session_id |-> NULL]}

\* Faulty variant of UpdateConversation: the owner is taken from the body
UpdateConversation_Owner(row, data, t) ==
    [row EXCEPT !.title = IF "title" \in data.given THEN data.title ELSE @,
                !.user = IF "user" \in data.given THEN data.user ELSE @,
                !.guest_session_id = IF "user" \in data.given THEN NULL ELSE @,
                !.updated_at = t]

\* ConversationSerializer.update: title is the one field of the body that is
\* written (id, user, created_at and updated_at are read only and
\* guest_session_id is no field of the serializer); updated_at is auto_now
UpdateConversation(row, data, t) ==
    [row EXCEPT !.title = IF "title" \in data.given THEN data.title ELSE @,
                !.updated_at = t]

\* PUT /conversations/{pk}/ and PATCH /conversations/{pk}/: get_object over
\* get_queryset, then the serializer's save.  A pk that is no conversation
\* of the owner is answered 404.
Updated(caller, pk, data) ==
    /\ budget.requests > 0
    /\ CanServe(caller)
    /\ budget' = [budget EXCEPT !.requests = @ - 1]
    /\ LET who == GetQueryset(caller).who
       IN  /\ django_session' = who.store
           /\ uuid' = who.uuid
           /\ HandOut(who.session_key)
    /\ conversations' =
           [k \in DOMAIN conversations |->
               IF conversations[k] \in GetObject(caller, pk)
               THEN UpdateConversation(conversations[k], data, now)
               ELSE conversations[k]]
    /\ UNCHANGED <<now, gemini, messages, api_usage, worker, log, ai_requests, ai_log>>

ConversationUpdate(caller, pk, data) == Updated(caller, pk, data)

ConversationPartialUpdate(caller, pk, data) == Updated(caller, pk, data)

\* Faulty variant of DeleteConversation: the owner's UsageRecords go as well
DeleteConversation_Usage(tables, row) ==
    [conversations |-> SelectSeq(tables.conversations, LAMBDA c : c.id # row.id),
     messages |-> SelectSeq(tables.messages, LAMBDA m : m.conversation # row.id),
     api_usage |-> SelectSeq(tables.api_usage,
                             LAMBDA u : ~OwnedBy(u, row.user, row.guest_session_id))]

\* instance.delete(): the row goes and, by on_delete=CASCADE of
\* Message.conversation, its Messages
DeleteConversation(tables, row) ==
    [conversations |-> SelectSeq(tables.conversations, LAMBDA c : c.id # row.id),
     messages |-> SelectSeq(tables.messages, LAMBDA m : m.conversation # row.id),
     api_usage |-> tables.api_usage]

\* A chat invocation is at work on the conversation
InUse(pk) == \E w \in Range(WorkerOrder) : worker[w].conversation = pk

\* DELETE /conversations/{pk}/: get_object over get_queryset, then delete.
\* A DELETE that arrives while a chat invocation is at work on the
\* conversation is left out.
ConversationDestroy(caller, pk) ==
    /\ budget.requests > 0
    /\ CanServe(caller)
    /\ ~InUse(pk)
    /\ budget' = [budget EXCEPT !.requests = @ - 1]
    /\ LET who == GetQueryset(caller).who
       IN  /\ django_session' = who.store
           /\ uuid' = who.uuid
           /\ HandOut(who.session_key)
    /\ LET tables == [conversations |-> conversations, messages |-> messages,
                      api_usage |-> api_usage]
           after == IF GetObject(caller, pk) = {} THEN tables
                    ELSE DeleteConversation(tables, CHOOSE c \in GetObject(caller, pk) : TRUE)
       IN  /\ conversations' = after.conversations
           /\ messages' = after.messages
           /\ api_usage' = after.api_usage
    /\ UNCHANGED <<now, gemini, worker, log, ai_requests, ai_log>>

\* APIUsageViewSet.get_queryset (views.py 256-269): the rows GET /usage/ and
\* GET /usage/stats/ work on; it creates no session
UsageQueryset(caller) ==
    IF IsAuthenticated(caller)
    THEN SelectSeq(api_usage, LAMBDA u : u.user = caller.user)
    ELSE IF caller.session_key = NULL THEN <<>>
    ELSE IF django_session[caller.session_key].guest_session_id = NULL THEN <<>>
    ELSE SelectSeq(api_usage,
                   LAMBDA u : u.guest_session_id =
                                  django_session[caller.session_key].guest_session_id)

\* A request that reads and writes nothing, no session either
Read ==
    /\ budget.requests > 0
    /\ budget' = [budget EXCEPT !.requests = @ - 1]
    /\ UNCHANGED <<now, uuid, gemini, django_session, cookies, database, worker, log,
                   ai_requests, ai_log>>

\* GET /usage/
UsageList(caller) == Read

\* GET /usage/stats/ (views.py 271-284)
UsageStats(caller) == Read

\* GET /messages/
MessageList(caller) == Read

(* ------------------------- the specification -------------------------- *)
Init ==
    /\ now = 1
    /\ uuid = 0
    /\ gemini \in BOOLEAN
    /\ django_session = <<>>
    /\ cookies = {}
    /\ conversations = <<>>
    /\ messages = <<>>
    /\ api_usage = <<>>
    /\ worker = [w \in Range(WorkerOrder) |-> Idle]
    /\ log = <<>>
    /\ ai_requests = <<>>
    /\ ai_log = <<>>
    /\ budget = [requests |-> MaxRequests, unusual |-> MaxUnusual]

Next ==
    \/ \E w \in Range(WorkerOrder), caller \in Callers, call \in ChatCalls :
          ChatBegin(w, caller, call[1], call[2])
    \/ \E w \in Range(WorkerOrder) : ChatUserMessage(w)
    \/ \E w \in Range(WorkerOrder) : ChatUserStamp(w)
    \/ \E w \in Range(WorkerOrder) : ChatUserTouch(w)
    \/ \E w \in Range(WorkerOrder) : ChatCallAI(w)
    \/ \E w \in Range(WorkerOrder), kind \in DOMAIN Failures : ChatAIFail(w, kind)
    \/ \E w \in Range(WorkerOrder), outcome \in GeminiOutcomes : ChatAIReply(w, outcome)
    \/ \E w \in Range(WorkerOrder) : ChatAssistantStamp(w)
    \/ \E w \in Range(WorkerOrder) : ChatAssistantTouch(w)
    \/ \E w \in Range(WorkerOrder) : ChatUsage(w)
    \/ \E caller \in Callers : ConversationList(caller)
    \/ \E caller \in Callers : ConversationRetrieve(caller)
    \/ \E caller \in Callers : ConversationMessages(caller)
    \/ \E caller \in Callers, title \in Titles : ConversationCreate(caller, title)

Spec == Init /\ [][Next]_vars

(* -------------- chat invocations that run to their end --------------- *)
\* The steps of a running chat handler after its first (views.py 120-197)
Handler(w) ==
    \/ ChatUserMessage(w)
    \/ ChatUserStamp(w)
    \/ ChatUserTouch(w)
    \/ ChatCallAI(w)
    \/ \E kind \in DOMAIN Failures : ChatAIFail(w, kind)
    \/ \E outcome \in GeminiOutcomes : ChatAIReply(w, outcome)
    \/ ChatAssistantStamp(w)
    \/ ChatAssistantTouch(w)
    \/ ChatUsage(w)

\* The chat requests tried: a valid body and an invalid one, with no
\* conversation id, an unknown one or an existing one
NextLive ==
    \/ \E w \in Range(WorkerOrder), caller \in Callers, cid \in ConversationIds :
          ChatBegin(w, caller, "plain", cid)
    \/ \E w \in Range(WorkerOrder), caller \in Callers : ChatBegin(w, caller, "blank", NULL)
    \/ \E w \in Range(WorkerOrder) : Handler(w)

\* A request handler is a sequential program that runs on: its next step is
\* taken once it can be.  requests.post returns an answer or raises, after
\* its timeout of 30 seconds at the latest (views.py 214-219).
Fairness == \A w \in Range(WorkerOrder) : WF_vars(Handler(w))

SpecLive == Init /\ [][NextLive]_vars /\ Fairness

(* ------------ failures of the database after the AI call ------------- *)
\* The text of the exception a statement raises when the database refuses it
\* (an OperationalError such as a lock that is not granted in time)
DATABASE_ERROR ==
    <<"d", "a", "t", "a", "b", "a", "s", "e", " ", "i", "s", " ",
      "l", "o", "c", "k", "e", "d">>

\* views.py 136-147, 178-197: the AI service answered, and the INSERT of the
\* assistant Message raises inside the try block: the except branch
ChatAssistantInsertFail(w, outcome) ==
    /\ worker[w].pc = "ai"
    /\ LET request == Sent(worker[w].inv)
           served == ChatEndpoint(gemini, request, outcome, 0)
       IN  /\ served.status_code = HTTP_200_OK
           /\ ai_log' = Append(ai_log, [request |-> request, path |-> served.path,
                                        context |-> served.context,
                                        raised |-> served.raised,
                                        status_code |-> served.status_code,
                                        response |-> served.body])
    /\ ChatFailed(w, "database", DATABASE_ERROR)
    /\ Spend(TRUE)
    /\ UNCHANGED <<uuid, gemini, django_session, conversations, messages, ai_requests>>

\* models.py 96-98, views.py 178-197: the assistant Message is inserted, and
\* the UPDATE of the conversation in Message.save raises; the exception
\* leaves Message.objects.create inside the try block: the except branch
ChatAssistantTouchFail(w) ==
    /\ worker[w].pc = "assistant_touch"
    /\ ChatFailed(w, "database", DATABASE_ERROR)
    /\ Spend(TRUE)
    /\ UNCHANGED <<uuid, gemini, django_session, conversations, messages, ai_requests,
                   ai_log>>

\* views.py 149-164, 178-197: the INSERT of the APIUsage row with status 200
\* raises inside the try block: the except branch, whose INSERT goes through
ChatUsageFail(w) ==
    /\ worker[w].pc = "usage"
    /\ ChatFailed(w, "database", DATABASE_ERROR)
    /\ Spend(TRUE)
    /\ UNCHANGED <<uuid, gemini, django_session, conversations, messages, ai_requests,
                   ai_log>>

NextFault ==
    \/ \E w \in Range(WorkerOrder), caller \in Callers, cid \in ConversationIds :
          ChatBegin(w, caller, "plain", cid)
    \/ \E w \in Range(WorkerOrder) : Handler(w)
    \/ \E w \in Range(WorkerOrder), outcome \in GeminiOutcomes :
          ChatAssistantInsertFail(w, outcome)
    \/ \E w \in Range(WorkerOrder) : ChatAssistantTouchFail(w)
    \/ \E w \in Range(WorkerOrder) : ChatUsageFail(w)

SpecFault == Init /\ [][NextFault]_vars

(* ------------- the AI service, called by any client ------------------- *)
\* A history of n messages, the i-th with the text "m<i>", whose roles follow
\* a pattern
History(n, pattern) ==
    [i \in 1..n |->
        [content |-> <<"m">> \o Str(i),
         role |-> CASE pattern = "users" -> "user"
                    [] pattern = "turns" -> IF i % 2 = 1 THEN "user" ELSE "assistant"
                    [] OTHER -> <<"system", "user", "assistant">>[(i % 3) + 1]]]

AIRequests ==
    {[message |-> <<"h", "i">>, conversation_history |-> History(n, pattern),
      temperature |-> DefaultTemperature, max_tokens |-> DefaultMaxTokens] :
        n \in 0..MaxHistory, pattern \in {"users", "turns", "mixed"}}
    \cup
    {[message |-> <<"w", "h", "y", "?">>, conversation_history |-> History(n, "turns"),
      temperature |-> MinTemperature, max_tokens |-> MaxMaxTokens] :
        n \in 0..MaxHistory}

\* main.py 249-272: POST /chat is served
Serve(request, outcome) ==
    /\ LET served == ChatEndpoint(gemini, request, outcome, 0)
       IN  ai_log' = Append(ai_log, [request |-> request, path |-> served.path,
                                     context |-> served.context,
                                     raised |-> served.raised,
                                     status_code |-> served.status_code,
                                     response |-> served.body])
    /\ UNCHANGED <<now, uuid, gemini, django_session, cookies, database, worker, log,
                   ai_requests, budget>>

\* main.py 249-272: POST /chat, from whoever sends it
AIChat(request, outcome) ==
    /\ Len(ai_log) < MaxPosts
    /\ Serve(request, outcome)

NextAI == \E request \in AIRequests, outcome \in GeminiOutcomes : AIChat(request, outcome)

SpecAI == Init /\ [][NextAI]_vars

(* ------------- the AI service, asked the same thing again ------------- *)
\* A few messages, each with and without a history and with the default and
\* with other generation parameters
RepeatRequests ==
    {[message |-> message, conversation_history |-> History(n, "turns"),
      temperature |-> parameters[1], max_tokens |-> parameters[2]] :
        message \in {<<"H", "e", "l", "l", "o">>, <<"h", "e", "y">>, <<"h", "i">>,
                     <<"w", "h", "y", "?">>},
        n \in {0, 2},
        parameters \in {<<DefaultTemperature, DefaultMaxTokens>>,
                        <<MaxTemperature, MinMaxTokens>>}}

\* main.py 249-272: POST /chat, once and again
AIChatAgain(request, outcome) ==
    /\ Len(ai_log) < MaxRepeats
    /\ Serve(request, outcome)

NextRepeat ==
    \E request \in RepeatRequests, outcome \in GeminiOutcomes : AIChatAgain(request, outcome)

SpecRepeat == Init /\ [][NextRepeat]_vars

(* ------------- one user, one conversation, turn after turn ------------ *)
InitLong ==
    /\ now = 1
    /\ uuid = 0
    /\ gemini \in BOOLEAN
    /\ django_session = <<>>
    /\ cookies = {}
    /\ conversations = <<>>
    /\ messages = <<>>
    /\ api_usage = <<>>
    /\ worker = [w \in Range(WorkerOrder) |-> Idle]
    /\ log = <<>>
    /\ ai_requests = <<>>
    /\ ai_log = <<>>
    /\ budget = [requests |-> MaxTurns, unusual |-> 0]

TheUser == [session_key |-> NULL, user |-> "alice"]

\* The first turn opens the conversation, the later ones continue it
TurnIds == IF conversations = <<>> THEN {NULL} ELSE {c.id : c \in Range(conversations)}

NextLong ==
    \/ \E cid \in TurnIds : ChatBegin("w1", TheUser, "plain", cid)
    \/ ChatUserMessage("w1")
    \/ ChatUserStamp("w1")
    \/ ChatUserTouch("w1")
    \/ ChatCallAI("w1")
    \/ ChatAIFail("w1", "timeout")
    \/ \E outcome \in GeminiOutcomes : ChatAIReply("w1", outcome)
    \/ ChatAssistantStamp("w1")
    \/ ChatAssistantTouch("w1")
    \/ ChatUsage("w1")

SpecLong == InitLong /\ [][NextLong]_vars

(* ------------- the whole API, one chat invocation at a time ----------- *)
InitApi ==
    /\ now = 1
    /\ uuid = 0
    /\ gemini \in BOOLEAN
    /\ django_session = <<>>
    /\ cookies = {}
    /\ conversations = <<>>
    /\ messages = <<>>
    /\ api_usage = <<>>
    /\ worker = [w \in Range(WorkerOrder) |-> Idle]
    /\ log = <<>>
    /\ ai_requests = <<>>
    /\ ai_log = <<>>
    /\ budget = [requests |-> MaxApiRequests, unusual |-> MaxUnusual]

NextApi ==
    \/ \E caller \in Callers, cid \in ConversationIds : ChatBegin("w1", caller, "plain", cid)
    \/ ChatUserMessage("w1")
    \/ ChatUserStamp("w1")
    \/ ChatUserTouch("w1")
    \/ ChatCallAI("w1")
    \/ \E kind \in DOMAIN Failures : ChatAIFail("w1", kind)
    \/ \E outcome \in GeminiOutcomes : ChatAIReply("w1", outcome)
    \/ ChatAssistantStamp("w1")
    \/ ChatAssistantTouch("w1")
    \/ ChatUsage("w1")
    \/ \E caller \in Callers : ConversationList(caller)
    \/ \E caller \in Callers : ConversationRetrieve(caller)
    \/ \E caller \in Callers : ConversationMessages(caller)
    \/ \E caller \in Callers, title \in Titles : ConversationCreate(caller, title)
    \/ \E caller \in Callers, pk \in ConversationIds \ {NULL}, data \in UpdateBodies :
          ConversationUpdate(caller, pk, data)
    \/ \E caller \in Callers, pk \in ConversationIds \ {NULL}, data \in UpdateBodies :
          ConversationPartialUpdate(caller, pk, data)
    \/ \E caller \in Callers, pk \in ConversationIds \ {NULL} :
          ConversationDestroy(caller, pk)
    \/ \E caller \in Callers : MessageList(caller)
    \/ \E caller \in Callers : UsageList(caller)
    \/ \E caller \in Callers : UsageStats(caller)

SpecApi == InitApi /\ [][NextApi]_vars

(* ------ the guest's chat, get_or_create_guest_session step by step ----- *)
\* The admin site (api_server/urls.py 35) logs its users in with a session of
\* the same store and hands them its cookie: a session that holds no
\* guest_session_id.  Its requests are anonymous to the API once the account
\* is deactivated or removed.
AdminSiteSession ==
    /\ Len(django_session) < MaxSessions
    /\ django_session' = Append(django_session, [guest_session_id |-> NULL])
    /\ cookies' = cookies \cup {Len(django_session) + 1}
    /\ UNCHANGED <<now, uuid, gemini, database, worker, log, ai_requests, ai_log, budget>>

\* views.py 78-100 and 48-51 for an anonymous request with the plain body and
\* no conversation_id: session.create() if the request has no session key,
\* then session.get('guest_session_id'), which loads the request's copy of
\* the session from the store
SessionGet(w, caller) ==
    /\ worker[w].pc = "idle"
    /\ w = FirstIdle
    /\ budget.requests > 0
    /\ ~IsAuthenticated(caller)
    /\ CanServe(caller)
    /\ LET validated_data == ChatRequestSerializer(ChatBodies["plain"]).validated_data
           created == IF caller.session_key = NULL
                      THEN Append(django_session, [guest_session_id |-> NULL])
                      ELSE django_session
           key == IF caller.session_key = NULL THEN Len(created) ELSE caller.session_key
       IN  /\ django_session' = created
           /\ SetWorker(w, [Idle EXCEPT !.pc = "guest_session", !.inv = Len(log) + 1,
                                        !.start_time = now,
                                        !.session_key = key,
                                        !.message_content = validated_data.message,
                                        !.temperature = validated_data.temperature,
                                        !.max_tokens = validated_data.max_tokens,
                                        !.guest_session_id = created[key].guest_session_id])
    /\ log' = Append(log, LogEntry(caller, "plain", NULL))
    /\ budget' = [budget EXCEPT !.requests = @ - 1]
    /\ UNCHANGED <<now, uuid, gemini, cookies, database, ai_requests, ai_log>>

\* views.py 52-57: if the copy holds no guest id, uuid4 is drawn, put into the
\* copy, and session.save() writes the copy to the store (the last write
\* wins); the id of the copy is returned
SessionSave(w) ==
    /\ worker[w].pc = "guest_session"
    /\ LET session_id == IF worker[w].guest_session_id = NULL THEN uuid + 1
                         ELSE worker[w].guest_session_id
       IN  /\ IF worker[w].guest_session_id = NULL
              THEN /\ uuid' = uuid + 1
                   /\ django_session' =
                          [django_session EXCEPT
                              ![worker[w].session_key].guest_session_id = session_id]
              ELSE UNCHANGED <<uuid, django_session>>
           /\ SetWorker(w, [worker[w] EXCEPT !.pc = "conversation",
                                             !.guest_session_id = session_id])
           /\ SetLog(worker[w].inv,
                     [log[worker[w].inv] EXCEPT !.guest_session_id = session_id])
    /\ UNCHANGED <<now, gemini, cookies, database, ai_requests, ai_log, budget>>

\* views.py 108-118: the guest's new conversation
ChatCreateConversation(w) ==
    /\ worker[w].pc = "conversation"
    /\ conversations' =
           Append(conversations,
                  Conversation(NextId, NoUser, worker[w].guest_session_id,
                               TitleOf(worker[w].message_content), now))
    /\ now' = now + 1
    /\ SetWorker(w, [worker[w] EXCEPT !.pc = "user_message", !.conversation = NextId])
    /\ SetLog(worker[w].inv, [log[worker[w].inv] EXCEPT !.conversation = NextId,
                                                        !.created_conversation = TRUE])
    /\ UNCHANGED <<uuid, gemini, django_session, cookies, messages, api_usage,
                   ai_requests, ai_log, budget>>

NextSession ==
    \/ AdminSiteSession
    \/ \E w \in Range(WorkerOrder), caller \in Callers : SessionGet(w, caller)
    \/ \E w \in Range(WorkerOrder) : SessionSave(w)
    \/ \E w \in Range(WorkerOrder) : ChatCreateConversation(w)
    \/ \E w \in Range(WorkerOrder) : ChatUserMessage(w)
    \/ \E w \in Range(WorkerOrder) : ChatUserStamp(w)
    \/ \E w \in Range(WorkerOrder) : ChatUserTouch(w)
    \/ \E w \in Range(WorkerOrder) : ChatCallAI(w)
    \/ \E w \in Range(WorkerOrder), kind \in DOMAIN Failures : ChatAIFail(w, kind)
    \/ \E w \in Range(WorkerOrder), outcome \in GeminiOutcomes : ChatAIReply(w, outcome)
    \/ \E w \in Range(WorkerOrder) : ChatAssistantStamp(w)
    \/ \E w \in Range(WorkerOrder) : ChatAssistantTouch(w)
    \/ \E w \in Range(WorkerOrder) : ChatUsage(w)

SpecSession == Init /\ [][NextSession]_vars

(* ------------------------------ claims -------------------------------- *)
\* The rows of a table with the given primary key
RowsWithId(table, id) == {i \in DOMAIN table : table[i].id = id}

\* The chat invocations, as indices of the log, that claim to have created a row
MessageClaims(id) ==
    {i \in DOMAIN log : log[i].user_message = id \/ log[i].assistant_message = id}

UsageClaims(id) == {i \in DOMAIN log : log[i].usage = id}

\* The message of a body as the handler is to store it
Trimmed(name) == Strip(ChatBodies[name].message)

\* The owner of a row, and the owner a request with the state's sessions
\* acts for; a guest without a session acts for nobody yet
OwnerOf(row) ==
    IF row.user # NoUser THEN <<"user", row.user>> ELSE <<"guest", row.guest_session_id>>

ActsFor(caller) ==
    IF caller.user # AnonymousUser THEN <<"user", caller.user>>
    ELSE IF caller.session_key = NULL THEN <<"guest", NULL>>
    ELSE <<"guest", django_session[caller.session_key].guest_session_id>>

\* C1: a chat invocation answered 200 (the AI service of this repository
\* answered it) has created exactly one user Message and exactly one
\* assistant Message, both in its conversation, and exactly one UsageRecord
\* with status 200 for the owner it acted for; no Message and no UsageRecord
\* exists that is not the one row of one invocation, whatever the
\* interleaving.
C1_SuccessCreatesThreeRows ==
    /\ \A i \in DOMAIN log :
           log[i].status = 200 =>
               /\ \E k \in DOMAIN messages :
                      /\ RowsWithId(messages, log[i].user_message) = {k}
                      /\ messages[k].role = "user"
                      /\ messages[k].conversation = log[i].conversation
                      /\ messages[k].content = Trimmed(log[i].body)
               /\ \E k \in DOMAIN messages :
                      /\ RowsWithId(messages, log[i].assistant_message) = {k}
                      /\ messages[k].role = "assistant"
                      /\ messages[k].conversation = log[i].conversation
               /\ \E k \in DOMAIN api_usage :
                      /\ RowsWithId(api_usage, log[i].usage) = {k}
                      /\ api_usage[k].status_code = 200
                      /\ api_usage[k].user = log[i].user
                      /\ api_usage[k].guest_session_id = log[i].guest_session_id
               /\ Cardinality({k \in DOMAIN conversations :
                                  conversations[k].id = log[i].conversation}) = 1
    /\ \A k \in DOMAIN messages : Cardinality(MessageClaims(messages[k].id)) = 1
    /\ \A k \in DOMAIN api_usage : Cardinality(UsageClaims(api_usage[k].id)) = 1
    /\ \A i \in DOMAIN log :
           log[i].user_message = NULL \/ log[i].user_message # log[i].assistant_message

\* C1 witness: two invocations that ran interleaved were both answered 200
C1_Witness ==
    /\ Len(log) = 2
    /\ log[1].status = 200
    /\ log[2].status = 200
    /\ log[2].user_message < log[1].assistant_message
    /\ log[1].user_message < log[2].assistant_message

\* C2: a chat invocation whose POST to the AI service failed, by timeout,
\* transport error, non-200 status or unparsable body, has created its user
\* Message and one UsageRecord with status 500 and 0 tokens, no assistant
\* Message, and is answered 500 with an error text.
C2_FailureKeepsUserMessage ==
    /\ \A i \in DOMAIN log :
           log[i].status = 500 =>
               /\ log[i].ai \in {"timeout", "refused", "status", "unparsable"}
               /\ \E k \in DOMAIN messages :
                      /\ RowsWithId(messages, log[i].user_message) = {k}
                      /\ messages[k].role = "user"
                      /\ messages[k].conversation = log[i].conversation
               /\ log[i].assistant_message = NULL
               /\ \E k \in DOMAIN api_usage :
                      /\ RowsWithId(api_usage, log[i].usage) = {k}
                      /\ api_usage[k].status_code = 500
                      /\ api_usage[k].tokens_used = 0
               /\ Len(log[i].error) > 0
               /\ log[i].response_data = NoData
    /\ \A k \in DOMAIN messages :
           messages[k].role = "assistant" =>
               \A i \in MessageClaims(messages[k].id) : log[i].status \in {0, 200}
    /\ Cardinality({k \in DOMAIN api_usage : api_usage[k].status_code = 500})
           = Cardinality({i \in DOMAIN log : log[i].status = 500})

\* C2 witness: a failed invocation on a conversation with nothing but its
\* user Message
C2_Witness ==
    \E i \in DOMAIN log :
        /\ log[i].status = 500
        /\ log[i].ai = "unparsable"
        /\ Len(MessagesOf(log[i].conversation)) = 1

\* C3 as stated: every finished chat invocation has exactly one UsageRecord
C3_Original ==
    \A i \in DOMAIN log :
        log[i].status # 0 => Cardinality(RowsWithId(api_usage, log[i].usage)) = 1

\* C3: a chat invocation answered 200 or 500 has created exactly one
\* UsageRecord, with that status; one answered 400 or 404 has created none,
\* and there are no other UsageRecords.
C3_UsagePerResolvedInvocation ==
    /\ \A i \in DOMAIN log :
           /\ log[i].status \in {0, 200, 400, 404, 500}
           /\ log[i].status \in {200, 500} =>
                  \E k \in DOMAIN api_usage :
                      /\ RowsWithId(api_usage, log[i].usage) = {k}
                      /\ api_usage[k].status_code = log[i].status
           /\ log[i].status \in {0, 400, 404} => log[i].usage = NULL
    /\ Len(api_usage) = Cardinality({i \in DOMAIN log : log[i].status \in {200, 500}})

\* C3 witness: one invocation answered 404 and one answered 200
C3_Witness ==
    /\ \E i \in DOMAIN log : log[i].status = 404
    /\ \E i \in DOMAIN log : log[i].status = 200
    /\ Len(api_usage) = 1

\* C4: list, retrieve and messages show a request only conversations of the
\* owner it acts for, and retrieve and messages answer 404 for the id of any
\* other conversation; a chat invocation with a conversation id that is not
\* a conversation of its owner is answered 404, and every conversation a
\* chat invocation works on belongs to the owner it acted for.
C4_OwnerIsolation ==
    /\ \A caller \in Callers :
           /\ \A c \in Range(GetQueryset(caller).rows) : OwnerOf(c) = ActsFor(caller)
           /\ \A c \in Range(conversations) :
                  OwnerOf(c) # ActsFor(caller) =>
                      /\ RetrieveResponse(caller, c.id).status = 404
                      /\ MessagesResponse(caller, c.id).status = 404
                      /\ \A k \in DOMAIN GetQueryset(caller).rows :
                             GetQueryset(caller).rows[k].id # c.id
           /\ \A m \in Range(messages) :
                  (\E k \in DOMAIN MessageQueryset(caller) : MessageQueryset(caller)[k] = m)
                      <=> \E c \in Range(conversations) :
                              c.id = m.conversation /\ OwnerOf(c) = ActsFor(caller)
           /\ \A c \in Range(conversations) :
                  OwnerOf(c) = ActsFor(caller) =>
                      /\ RetrieveResponse(caller, c.id).data = c
                      /\ \A k \in DOMAIN MessagesResponse(caller, c.id).data :
                             MessagesResponse(caller, c.id).data[k].conversation = c.id
    /\ \A i \in DOMAIN log :
           LET acted == IF log[i].user # NoUser THEN <<"user", log[i].user>>
                        ELSE <<"guest", log[i].guest_session_id>>
               asked == {c \in Range(conversations) : c.id = log[i].conversation_id}
           IN  /\ log[i].caller.user # AnonymousUser =>
                      log[i].status = 400 \/ acted = <<"user", log[i].caller.user>>
               /\ (log[i].caller.user = AnonymousUser /\ log[i].caller.session_key # NULL) =>
                      log[i].status = 400 \/ acted = ActsFor(log[i].caller)
               /\ \A c \in Range(conversations) :
                      c.id = log[i].conversation => OwnerOf(c) = acted
               /\ (log[i].conversation_id # NULL /\ log[i].status # 400) =>
                      IF \E c \in asked : OwnerOf(c) = acted
                      THEN log[i].conversation = log[i].conversation_id
                      ELSE log[i].status = 404 /\ log[i].conversation = NULL

\* C4 witness: a chat invocation asked for a conversation of another owner
C4_Witness ==
    \E i \in DOMAIN log :
        /\ log[i].status = 404
        /\ \E c \in Range(conversations) :
               /\ c.id = log[i].conversation_id
               /\ c.guest_session_id # NULL
               /\ log[i].guest_session_id # NULL

\* A body breaks the rules of the chat request: no text once trimmed, more
\* than 2000 characters, a temperature outside 0.0..2.0, max_tokens outside
\* 1..4000
InputViolates(body) ==
    LET inked == {i \in DOMAIN body.message : body.message[i] \notin {" ", "\t", "\n", "\r"}}
    IN
    \/ inked = {}
    \/ \E i \in inked : \E j \in (i + 2000)..Len(body.message) : j \in inked
    \/ "temperature" \in body.given /\ (body.temperature < 0 \/ body.temperature > 20)
    \/ "max_tokens" \in body.given /\ (body.max_tokens < 1 \/ body.max_tokens > 4000)

\* C5: a chat invocation whose body breaks the rules is answered 400, no
\* other is, and the step that answers 400 leaves the database, the session
\* store, the cookies, the uuid draws and the requests to the AI service as
\* they were
C5_InvalidInputChangesNothing ==
    [][Len(log') = Len(log) + 1 =>
          LET entry == log'[Len(log')]
          IN  /\ InputViolates(ChatBodies[entry.body]) <=> entry.status = 400
              /\ entry.status = 400 =>
                     /\ UNCHANGED <<database, django_session, cookies, uuid, now>>
                     /\ UNCHANGED <<ai_requests, ai_log, worker>>
                     /\ entry.guest_session_id = NULL]_vars

\* C5 witness: a guest without a session sent a message of 2001 characters
C5_Witness ==
    \E i \in DOMAIN log :
        /\ log[i].status = 400
        /\ log[i].body = "too_long"
        /\ log[i].caller.user = AnonymousUser
        /\ log[i].caller.session_key = NULL
        /\ django_session = <<>>

\* A request of a session that holds a guest id resolves to that id, draws
\* no uuid and leaves the session store as it is
SessionsResolve ==
    \A caller \in Callers :
        (/\ caller.user = AnonymousUser
         /\ caller.session_key # NULL
         /\ django_session[caller.session_key].guest_session_id # NULL) =>
            /\ Identify(caller).guest_session_id =
                   django_session[caller.session_key].guest_session_id
            /\ GetQueryset(caller).who.guest_session_id =
                   django_session[caller.session_key].guest_session_id
            /\ Identify(caller).store = django_session
            /\ Identify(caller).uuid = uuid

C9_ExactlyOneOwner ==
    /\ \A c \in Range(conversations) :
           (c.user # NoUser) # (c.guest_session_id # NULL)
    /\ \A u \in Range(api_usage) :
           (u.user # NoUser) # (u.guest_session_id # NULL)

\* C9 witness: conversations of a user and of a guest, one of them made by
\* POST /conversations/, and a UsageRecord
C9_Witness ==
    /\ \E c \in Range(conversations) : c.user # NoUser
    /\ \E c \in Range(conversations) : c.guest_session_id # NULL
    /\ \E c \in Range(conversations) : c.title = <<"t", "o", "p", "i", "c">>
    /\ api_usage # <<>>

\* C10: the conversation a chat invocation opens is titled with the trimmed
\* message when that has at most 50 characters and else with its first 50
\* characters followed by "..."; no step changes the title of a conversation
C10_TitleFromFirstMessage ==
    [][/\ \A i \in DOMAIN log' :
              log'[i].created_conversation =>
                  \E k \in DOMAIN conversations' :
                      /\ conversations'[k].id = log'[i].conversation
                      /\ LET text == Trimmed(log'[i].body)
                             title == conversations'[k].title
                         IN  IF Len(text) <= 50 THEN title = text
                             ELSE /\ Len(title) = 53
                                  /\ SubSeq(title, 1, 50) = SubSeq(text, 1, 50)
                                  /\ SubSeq(title, 51, 53) = <<".", ".", ".">>
       /\ \A k \in DOMAIN conversations :
              /\ k \in DOMAIN conversations'
              /\ conversations'[k].title = conversations[k].title]_vars

\* C10 witness: a chat with the plain message into the conversation that a
\* message of 60 characters opened
C10_Witness ==
    /\ Len(log) = 2
    /\ log[1].body = "long_title"
    /\ log[2].body = "plain"
    /\ log[2].conversation = log[1].conversation
    /\ log[2].status = 200
    /\ \E c \in Range(conversations) : Len(c.title) = 53

RECURSIVE Lines(_)
\* The lines of a text: the pieces between its line feeds
Lines(text) ==
    IF \A i \in DOMAIN text : text[i] # "\n" THEN <<text>>
    ELSE LET cut == CHOOSE i \in DOMAIN text :
                        text[i] = "\n" /\ \A j \in 1..(i - 1) : text[j] # "\n"
         IN  <<SubSeq(text, 1, cut - 1)>> \o Lines(SubSeq(text, cut + 1, Len(text)))

\* C7: the prompt rendered from a history of n messages holds, after the
\* line "Previous conversation:", exactly min(n, 10) turns, which are the
\* most recent messages in the order of the history, each labelled Human
\* when its role is user and Assistant otherwise; a blank line follows, and
\* the prompt ends with the new Human turn and the open line "Assistant:".
\* With no history the prompt holds no turn but the new one.
C7_PromptHoldsLastTen ==
    \A e \in Range(ai_log) :
        e.path # "mock" =>
            LET history == e.request.conversation_history
                n == Len(history)
                kept == IF n < 10 THEN n ELSE 10
                lines == Lines(e.context)
                last == Len(lines)
                label(role) == IF role = "user" THEN <<"H", "u", "m", "a", "n">>
                               ELSE <<"A", "s", "s", "i", "s", "t", "a", "n", "t">>
            IN  /\ lines[last] = <<"A", "s", "s", "i", "s", "t", "a", "n", "t", ":">>
                /\ lines[last - 1] = <<"H", "u", "m", "a", "n", ":", " ">> \o e.request.message
                /\ last = 4 + (IF n = 0 THEN 0 ELSE kept + 2)
                /\ n > 0 =>
                       /\ lines[last - 2] = <<>>
                       /\ lines[last - 3 - kept] =
                              <<"P", "r", "e", "v", "i", "o", "u", "s", " ", "c", "o", "n",
                                "v", "e", "r", "s", "a", "t", "i", "o", "n", ":">>
                       /\ \A k \in 1..kept :
                              lines[last - 3 - kept + k] =
                                  label(history[n - kept + k].role) \o <<":", " ">>
                                      \o history[n - kept + k].content

\* C7 witness: a prompt was rendered from 12 messages, a system message
\* among the last ten
C7_Witness ==
    \E e \in Range(ai_log) :
        /\ e.path = "model"
        /\ Len(e.request.conversation_history) = 12
        /\ e.request.conversation_history[12].role = "system"
        /\ Len(Lines(e.context)) = 16

Turns(conversation) == {i \in DOMAIN log : log[i].conversation = conversation}

\* A Message.save has inserted its row into the conversation and has not yet
\* written the conversation's updated_at
SaveInProgress(conversation) ==
    \E w \in Range(WorkerOrder) :
        /\ worker[w].conversation = conversation
        /\ worker[w].pc \in {"user_stamp", "user_touch", "assistant_stamp", "assistant_touch"}

\* Turn i was answered before turn j appended its first Message
Apart(i, j) ==
    /\ log[i].usage # NULL
    /\ \/ log[j].user_message = NULL
       \/ \E u \in Range(api_usage), m \in Range(messages) :
              /\ u.id = log[i].usage
              /\ m.id = log[j].user_message
              /\ u.created_at < m.created_at

NonOverlapping(conversation) ==
    \A i \in Turns(conversation), j \in Turns(conversation) :
        i # j => Apart(i, j) \/ Apart(j, i)

NotBeforeItsMessages(c) ==
    \A m \in Range(messages) : m.conversation = c.id => c.updated_at >= m.created_at

C18_Original ==
    [][Len(ai_requests') = Len(ai_requests) + 1 =>
          LET sent == ai_requests'[Len(ai_requests')]
              history == sent.payload.conversation_history
              own == CHOOSE m \in Range(messages) : m.id = log[sent.by].user_message
              prior == {m \in Range(messages) :
                           /\ m.conversation = log[sent.by].conversation
                           /\ m.created_at < own.created_at}
          IN  /\ Len(history) <= Cardinality(prior)
              /\ \A k \in DOMAIN history :
                     \E m \in prior :
                         /\ Cardinality({o \in prior : o.created_at < m.created_at}) = k - 1
                         /\ history[k] = [content |-> m.content, role |-> m.role]]_vars

\* The requests to the AI service that a chat invocation sent
RequestsBy(requests, inv) == {k \in DOMAIN requests : requests[k].by = inv}

\* C16: a chat invocation sends at most one request to the AI service: none
\* when it is answered 400 or 404, exactly one when it is answered 200 or 500
\* (it got past validation and past the conversation), and the one request
\* is sent after the user Message is stored; a request once sent is never
\* sent again, whatever the AI call's outcome
C16_OneRequestPerInvocation ==
    [][/\ Len(ai_requests') <= Len(ai_requests) + 1
       /\ \A k \in DOMAIN ai_requests :
              k \in DOMAIN ai_requests' /\ ai_requests'[k] = ai_requests[k]
       /\ \A r \in Range(ai_requests') : r.by \in DOMAIN log'
       /\ \A i \in DOMAIN log' :
              LET n == Cardinality(RequestsBy(ai_requests', i))
              IN  /\ n <= 1
                  /\ log'[i].status \in {400, 404} => n = 0
                  /\ log'[i].status \in {200, 500} => n = 1
                  /\ n = 1 => /\ log'[i].conversation # NULL
                              /\ log'[i].user_message # NULL]_vars

\* C16 witness: one invocation timed out and was answered 500 after its one
\* request, another was answered 404 and sent none
C16_Witness ==
    /\ \E i \in DOMAIN log :
           /\ log[i].status = 500
           /\ log[i].ai = "timeout"
           /\ Cardinality(RequestsBy(ai_requests, i)) = 1
    /\ \E i \in DOMAIN log :
           /\ log[i].status = 404
           /\ RequestsBy(ai_requests, i) = {}
    /\ Len(ai_requests) = 1

\* C20: a chat invocation with a valid body and a conversation_id that is
\* no conversation, or a conversation of another owner, is answered 404; the
\* step that answers it leaves the three tables and the requests to the AI
\* service as they were and starts no work, and no other invocation is
\* answered 404
C20_NotFoundCreatesNothing ==
    [][Len(log') = Len(log) + 1 =>
          LET entry == log'[Len(log')]
              acted == IF entry.user # NoUser THEN <<"user", entry.user>>
                       ELSE <<"guest", entry.guest_session_id>>
              foreign == /\ entry.conversation_id # NULL
                         /\ ~InputViolates(ChatBodies[entry.body])
                         /\ \A c \in Range(conversations) :
                                c.id = entry.conversation_id => OwnerOf(c) # acted
          IN  /\ foreign <=> entry.status = 404
              /\ entry.status = 404 =>
                     /\ UNCHANGED <<conversations, messages, api_usage>>
                     /\ UNCHANGED <<ai_requests, ai_log, worker, now>>
                     /\ entry.conversation = NULL
                     /\ entry.created_conversation = FALSE
                     /\ entry.user_message = NULL
                     /\ entry.usage = NULL]_vars

\* C20 witness: bob asked for the conversation of alice
C20_Witness ==
    \E i \in DOMAIN log :
        /\ log[i].status = 404
        /\ log[i].user = "bob"
        /\ Len(conversations) = 1
        /\ conversations[1].id = log[i].conversation_id
        /\ conversations[1].user = "alice"
        /\ messages = <<>>

\* The text holds the part as a run of consecutive characters
Contains(text, part) ==
    \E i \in 0..(Len(text) - Len(part)) : SubSeq(text, i + 1, i + Len(part)) = part

\* C12: every request that reaches generate_response is answered with a
\* result of the four fields content, tokens_used, model and
\* response_time_ms and with status 200, on each path: the mock path exactly
\* when no model is configured, else the model's text, else, when the model
\* call raised, the apology that holds the error text, with 20 tokens and
\* the configured model's name
C12_GenerateIsTotal ==
    \A e \in Range(ai_log) :
        /\ e.status_code = 200
        /\ e.path \in {"mock", "model", "error"}
        /\ e.path = "mock" <=> ~gemini
        /\ DOMAIN e.response = {"content", "tokens_used", "model", "response_time_ms"}
        /\ Len(e.response.content) > 0
        /\ e.response.tokens_used >= 0
        /\ e.response.response_time_ms >= 0
        /\ e.path = "error" =>
               /\ e.response.tokens_used = 20
               /\ e.raised # <<>>
               /\ Contains(e.response.content, e.raised)
               /\ e.response.model = "gemini-1.5-flash"
        /\ e.path # "error" => e.raised = <<>>

\* C12 witness: the model call raised "quota" for a request with a history
C12_Witness ==
    \E e \in Range(ai_log) :
        /\ e.path = "error"
        /\ e.raised = <<"q", "u", "o", "t", "a">>
        /\ Len(e.request.conversation_history) = 3
        /\ e.response.tokens_used = 20

\* C13: with no model configured the content is the entry of the list of
\* four mock responses at index len(message) mod 4, the second entry for
\* "Hello", and the model is "mock-model"; two requests with the same message
\* get the same content and the same model, whatever else they carry
C13_MockIsDeterministic ==
    /\ \A e \in Range(ai_log) :
           e.path = "mock" =>
               /\ e.response.model = "mock-model"
               /\ e.response.content =
                      CASE Len(e.request.message) % 4 = 0 -> MOCK_0
                        [] Len(e.request.message) % 4 = 1 -> MOCK_1
                        [] Len(e.request.message) % 4 = 2 -> MOCK_2
                        [] OTHER -> MOCK_3_HEAD \o e.request.message \o MOCK_3_TAIL
               /\ e.request.message = <<"H", "e", "l", "l", "o">> =>
                      SubSeq(e.response.content, 1, 14) =
                          <<"T", "h", "i", "s", " ", "i", "s", " ", "a", " ", "d", "e", "m", "o">>
    /\ \A e1 \in Range(ai_log), e2 \in Range(ai_log) :
           (e1.path = "mock" /\ e2.path = "mock" /\ e1.request.message = e2.request.message) =>
               /\ e1.response.content = e2.response.content
               /\ e1.response.model = e2.response.model

\* C13 witness: "Hello" was asked twice of a service without a model, with
\* another history and other parameters, and answered the same
C13_Witness ==
    /\ Len(ai_log) = 2
    /\ ai_log[1].path = "mock"
    /\ ai_log[1].request.message = <<"H", "e", "l", "l", "o">>
    /\ ai_log[2].request.message = <<"H", "e", "l", "l", "o">>
    /\ ai_log[1].request.conversation_history # ai_log[2].request.conversation_history
    /\ ai_log[1].request.temperature # ai_log[2].request.temperature
    /\ ai_log[1].request.max_tokens # ai_log[2].request.max_tokens
    /\ ai_log[1].response.content = ai_log[2].response.content

\* C15: no step of the API (chat, conversation create, update and delete,
\* the listings, usage and stats) removes a UsageRecord or changes a field
\* of one; the table only grows at its end
C15_UsageAppendOnly ==
    [][/\ Len(api_usage') >= Len(api_usage)
       /\ \A k \in DOMAIN api_usage :
              k \in DOMAIN api_usage' /\ api_usage'[k] = api_usage[k]]_vars

\* C15 witness: the conversation of a recorded chat was deleted by its
\* owner, its Messages with it, and the UsageRecord is there
C15_Witness ==
    /\ Len(api_usage) = 1
    /\ conversations = <<>>
    /\ messages = <<>>
    /\ budget.requests = 0
    /\ \E i \in DOMAIN log : log[i].status = 200 /\ log[i].usage = api_usage[1].id

\* C17: a conversation has the user and the guest_session_id it was created
\* with after every step of the API, an update whose body names another
\* owner included
C17_OwnerNeverChanges ==
    [][\A c \in Range(conversations), d \in Range(conversations') :
           c.id = d.id => d.user = c.user /\ d.guest_session_id = c.guest_session_id]_vars

\* C17 witness: alice's conversation, opened by a chat, after an update whose
\* body named bob as its user
C17_Witness ==
    \E c \in Range(conversations) :
        /\ c.title = <<"m", "i", "n", "e">>
        /\ c.user = "alice"
        /\ c.guest_session_id = NULL
        /\ \E m \in Range(messages) : m.conversation = c.id

\* The user Message of every invocation that was answered 500 is shown, with
\* status 200, by the listing of its conversation's messages to every request
\* that acts for the conversation's owner, as long as the conversation is
\* there (after its owner's DELETE the listing is a 404)
FailedTurnsListed ==
    \A i \in DOMAIN log :
        log[i].status = 500 =>
            \A c \in Range(conversations) :
                c.id = log[i].conversation =>
                    /\ OwnerOf(c) = IF log[i].user # NoUser THEN <<"user", log[i].user>>
                                    ELSE <<"guest", log[i].guest_session_id>>
                    /\ \A caller \in Callers :
                           ActsFor(caller) = OwnerOf(c) =>
                               LET listing == MessagesResponse(caller, c.id)
                               IN  /\ listing.status = 200
                                   /\ \E k \in DOMAIN listing.data :
                                          /\ listing.data[k].id = log[i].user_message
                                          /\ listing.data[k].role = "user"
                                          /\ listing.data[k].content = Trimmed(log[i].body)

C19_Original ==
    (\A w \in Range(WorkerOrder) : worker[w].pc = "idle") =>
        \A i \in DOMAIN log :
            (/\ log[i].caller.user = AnonymousUser
             /\ log[i].caller.session_key # NULL
             /\ log[i].guest_session_id # NULL) =>
                LET held == django_session[log[i].caller.session_key].guest_session_id
                IN  /\ log[i].guest_session_id = held
                    /\ \A c \in Range(conversations) :
                           (c.id = log[i].conversation /\ log[i].created_conversation) =>
                               /\ c.guest_session_id = held
                               /\ c \in Range(GetQueryset(log[i].caller).rows)
                    /\ \A u \in Range(api_usage) :
                           u.id = log[i].usage => u.guest_session_id = held

\* The number of Messages of a conversation with the given role
RoleCount(conversation, role) ==
    Cardinality({m \in Range(messages) : m.conversation = conversation /\ m.role = role})

\* C21: in every reachable state every Message has the role user or
\* assistant and every conversation has at most as many assistant Messages
\* as user Messages; and if the chat turns of a conversation do not overlap,
\* every assistant Message comes, in the conversation's creation order,
\* directly after a user Message, which is the user Message of the turn that
\* created the assistant Message
C21_AssistantFollowsUser ==
    /\ \A m \in Range(messages) : m.role \in {"user", "assistant"}
    /\ \A c \in Range(conversations) :
           LET listing == MessagesOf(c.id)
           IN  /\ RoleCount(c.id, "assistant") <= RoleCount(c.id, "user")
               /\ NonOverlapping(c.id) =>
                      \A k \in DOMAIN listing :
                          listing[k].role = "assistant" =>
                              /\ k > 1
                              /\ listing[k - 1].role = "user"
                              /\ \E i \in Turns(c.id) :
                                     /\ log[i].assistant_message = listing[k].id
                                     /\ log[i].user_message = listing[k - 1].id

\* C21 witness: two turns on one conversation, one after the other, both
\* answered 200: the conversation's Messages are user, assistant, user,
\* assistant
C21_Witness ==
    /\ Len(log) = 2
    /\ log[1].status = 200
    /\ log[2].status = 200
    /\ log[1].conversation = log[2].conversation
    /\ NonOverlapping(log[1].conversation)
    /\ LET listing == MessagesOf(log[1].conversation)
       IN  /\ Len(listing) = 4
           /\ [k \in 1..4 |-> listing[k].role] = <<"user", "assistant", "user", "assistant">>
           /\ listing[4].id = log[2].assistant_message

\* The response of every invocation answered 200 agrees with the rows the
\* invocation created: tokens_used is that of its UsageRecord and of its
\* assistant Message's metadata, response_time_ms is that of its UsageRecord,
\* and user_message and assistant_message are the invocation's two Messages,
\* both in the conversation the response names
AccountedConsistently ==
    \A i \in DOMAIN log :
        log[i].status = 200 =>
            LET data == log[i].response_data
            IN  /\ data.conversation_id = log[i].conversation
                /\ data.user_message.id = log[i].user_message
                /\ data.user_message.role = "user"
                /\ data.user_message.conversation = data.conversation_id
                /\ data.user_message \in Range(messages)
                /\ data.assistant_message.id = log[i].assistant_message
                /\ data.assistant_message.role = "assistant"
                /\ data.assistant_message.conversation = data.conversation_id
                /\ data.assistant_message \in Range(messages)
                /\ data.assistant_message.metadata.tokens_used = data.tokens_used
                /\ \E u \in Range(api_usage) :
                       /\ u.id = log[i].usage
                       /\ u.status_code = 200
                       /\ u.tokens_used = data.tokens_used
                       /\ u.response_time_ms = data.response_time_ms

\* C22: on a successful chat turn the tokens_used of the response, of the
\* UsageRecord and of the assistant Message's metadata are equal to the
\* tokens_used of the AI service's response (the metadata gets it in the step
\* that receives the AI service's answer), the response_time_ms of the
\* response is that of the UsageRecord, and the Messages returned are the two
\* the invocation created in the conversation returned
C22_TokensAccountedConsistently ==
    /\ []AccountedConsistently
    /\ [][\A i \in DOMAIN log :
              (log[i].assistant_message = NULL /\ log'[i].assistant_message # NULL) =>
                  /\ Len(ai_log') = Len(ai_log) + 1
                  /\ LET answer == ai_log'[Len(ai_log')]
                     IN  /\ answer.request = Sent(i)
                         /\ answer.status_code = 200
                         /\ \E m \in Range(messages') :
                                /\ m.id = log'[i].assistant_message
                                /\ m \notin Range(messages)
                                /\ m.content = answer.response.content
                                /\ m.metadata.tokens_used = answer.response.tokens_used
                                /\ m.metadata.model = answer.response.model]_vars

\* C22 witness: a turn answered 200 by the configured model's error path,
\* whose 20 tokens are in the response, the UsageRecord and the metadata
C22_Witness ==
    \E i \in DOMAIN log :
        /\ log[i].status = 200
        /\ log[i].response_data.tokens_used = ErrorTokens
        /\ log[i].response_data.response_time_ms > 0
        /\ \E u \in Range(api_usage) :
               u.id = log[i].usage /\ u.tokens_used = ErrorTokens
        /\ \E m \in Range(messages) :
               m.id = log[i].assistant_message /\ m.metadata.tokens_used = ErrorTokens

\* The statuses a chat invocation is answered with
Statuses ==
    {HTTP_200_OK, HTTP_400_BAD_REQUEST, HTTP_404_NOT_FOUND, HTTP_500_INTERNAL_SERVER_ERROR}

\* C23: with an AI call that returns or fails by its timeout, every chat
\* invocation is eventually answered with a status among 200, 400, 404 and
\* 500; it is answered once (the answer never changes and the handler has
\* ended); and an invocation that sent its request to the AI service has its
\* UsageRecord stored when it is answered
C23_EveryInvocationResponds ==
    /\ \A n \in 1..MaxRequests :
           (Len(log) >= n) ~> (Len(log) >= n /\ log[n].status \in Statuses)
    /\ [][\A i \in DOMAIN log :
              /\ log[i].status # 0 =>
                     /\ log'[i].status = log[i].status
                     /\ \A w \in Range(WorkerOrder) : worker[w].inv # i
              /\ (log[i].status = 0 /\ log'[i].status # 0) =>
                     /\ log'[i].status \in Statuses
                     /\ \A w \in Range(WorkerOrder) : worker'[w].inv # i
                     /\ RequestsBy(ai_requests, i) # {} =>
                            /\ log'[i].status \in {HTTP_200_OK, HTTP_500_INTERNAL_SERVER_ERROR}
                            /\ \E u \in Range(api_usage') :
                                   /\ u.id = log'[i].usage
                                   /\ u.status_code = log'[i].status]_vars

\* C23 witness: two invocations reached the AI call; the first failed by the
\* timeout and was answered 500, the second was answered 200; both have
\* their UsageRecord
C23_Witness ==
    /\ Len(log) = 2
    /\ log[1].status = 500
    /\ log[1].ai = "timeout"
    /\ log[2].status = 200
    /\ RequestsBy(ai_requests, 1) # {}
    /\ RequestsBy(ai_requests, 2) # {}
    /\ Len(api_usage) = 2
    /\ \A w \in Range(WorkerOrder) : worker[w].pc = "idle"

\* C24 (as stated): no chat invocation has left an assistant Message and a
\* UsageRecord with status 500, whatever failed after the AI call returned;
\* and there is at most one UsageRecord for each invocation that sent its
\* request to the AI service, so never one with status 200 and one with
\* status 500 for the same invocation
C24_Original ==
    /\ \A i \in DOMAIN log :
           ~ /\ \E m \in Range(messages) :
                    m.id = log[i].assistant_message /\ m.role = "assistant"
             /\ \E u \in Range(api_usage) :
                    /\ u.id = log[i].usage
                    /\ u.status_code = HTTP_500_INTERNAL_SERVER_ERROR
    /\ Len(api_usage) <= Cardinality({i \in DOMAIN log : RequestsBy(ai_requests, i) # {}})

====
